---------------------------- MODULE Spec2Model ----------------------------
(***************************************************************************)
(* A model of MongoRepo (index.js): a repository over one MongoDB          *)
(* collection.  Documents are JSON values; the repository's operations are *)
(* asynchronous, so every operation is a call that advances through the    *)
(* callbacks of the store.                                                 *)
(***************************************************************************)
EXTENDS Integers, Sequences, FiniteSets, TLC

(***************************************************************************)
(* Bounds of the model.                                                    *)
(***************************************************************************)
MaxVal == 3

MaxArrLen == 3

MaxCalls == 2

MaxBatch == 2

MaxLen == 1

(***************************************************************************)
(* JSON values, tagged by kind.  JavaScript's undefined and null are       *)
(* values of their own; numbers and strings are the scalars S(n).          *)
(***************************************************************************)
Undef == [t |-> "undef"]

Null == [t |-> "null"]

Nil == [t |-> "nil"]

S(n) == [t |-> "s", v |-> n]

Obj(f) == [t |-> "obj", f |-> f]

Arr(e) == [t |-> "arr", e |-> e]

IsObj(v) == v.t = "obj"

IsArr(v) == v.t = "arr"

\* typeof v
TypeOf(v) ==
  CASE v.t = "undef" -> "undefined"
    [] v.t = "s" -> "number"
    [] OTHER -> "object"

\* !v
Falsy(v) == v.t \in {"undef", "null"} \/ (v.t = "s" /\ v.v = 0)

\* The decimal text of an array index, as Array.prototype.join and string
\* concatenation produce it.
IntStr == <<"0", "1", "2", "3", "4", "5">>

ToStr(i) == IntStr[i + 1]

IsIndexStr(s) == \E i \in 1..Len(IntStr) : IntStr[i] = s

ParseIndex(s) == (CHOOSE i \in 1..Len(IntStr) : IntStr[i] = s) - 1

\* Object.keys(v): an object's own keys; an array's are its indices as text.
Keys(v) ==
  IF IsObj(v) THEN DOMAIN v.f
  ELSE IF IsArr(v) THEN {ToStr(i - 1) : i \in 1..Len(v.e)}
  ELSE {}

\* v[k] for a key k given as text; undefined when absent.
Prop(v, k) ==
  IF IsObj(v) THEN (IF k \in DOMAIN v.f THEN v.f[k] ELSE Undef)
  ELSE IF IsArr(v) /\ IsIndexStr(k) /\ ParseIndex(k) < Len(v.e)
    THEN v.e[ParseIndex(k) + 1]
  ELSE Undef

\* The order in which the keys of an object are visited.
KeyOrder ==
  <<"_id", "key", "a", "arr", "o", "x", "y", "dateCreatedUtc", "dateUpdatedUtc",
    "0", "1", "2", "3", "4", "5">>


VARIABLES
  collection,   \* the MongoDB collection: identity -> stored document, or Nil
  calls,        \* the calls made on the repository, each with its progress
  dOrig,        \* _makeUpdateSet on its own: the document as fetched
  dUpdated,     \* _makeUpdateSet on its own: the updated data model
  dVersion,     \* _makeUpdateSet on its own: the deep-diff installed
  dSet,         \* _makeUpdateSet on its own: the update set, Nil before the call
  tErr,         \* translateDbError on its own: the error it is given
  tOut,         \* translateDbError on its own: what it returns, Nil before the call
  options,      \* the options the repository was constructed with
  now,          \* the clock: the instant moment.utc() reads
  jsonPtr       \* the json-ptr installed: what set does where a container is missing

\* The variables of the functions checked on their own.
pureVars == <<dOrig, dUpdated, dVersion, dSet, tErr, tOut>>

\* The configuration and the clock.
envVars == <<options, now, jsonPtr>>

vars == <<collection, calls, pureVars, envVars>>

(***************************************************************************)
(* deep-diff: observableDiff(lhs, rhs, changes, prefilter) reports one     *)
(* change record per difference.  Kinds: N (new), D (deleted), E (edited)  *)
(* and A (a change within an array: index, and item, the nested record).   *)
(* Only N and E records carry rhs; an A record carries its value in        *)
(* item.rhs.                                                               *)
(***************************************************************************)
DiffNew(path, rhs) == [kind |-> "N", path |-> path, rhs |-> rhs]

DiffDeleted(path, lhs) == [kind |-> "D", path |-> path, lhs |-> lhs]

DiffEdit(path, lhs, rhs) == [kind |-> "E", path |-> path, lhs |-> lhs, rhs |-> rhs]

DiffArray(path, index, item) == [kind |-> "A", path |-> path, index |-> index, item |-> item]

\* change.name, undefined when the record has no such property
Field(change, name) == IF name \in DOMAIN change THEN change[name] ELSE Undef

\* The two array traversals of deep-diff: "wrapped" reports a difference at a
\* common index as an A record around the element's own change record,
\* "flat" reports it as the element's change record at path + index.
DeepVersions == {"wrapped", "flat"}

\* MongoRepo.prototype._filterUpdatedProperties
filterUpdatedProperties(path, key) == FALSE

WrapAll(path, index, items) ==
  [j \in 1..Len(items) |-> DiffArray(path, index, items[j])]

RECURSIVE deepDiff(_, _, _, _)
RECURSIVE ObjectDiff(_, _, _, _, _, _)
RECURSIVE ArrayDiff(_, _, _, _, _)

\* deepDiff(lhs, rhs, changes, prefilter, path, key): the change records of
\* lhs against rhs, where path already ends with key.
deepDiff(lhs, rhs, path, ver) ==
  LET ltype == TypeOf(lhs)
      rtype == TypeOf(rhs)
  IN  IF ltype = "undefined"
        THEN (IF rtype # "undefined" THEN <<DiffNew(path, rhs)>> ELSE <<>>)
      ELSE IF rtype = "undefined" THEN <<DiffDeleted(path, lhs)>>
      ELSE IF ltype # rtype THEN <<DiffEdit(path, lhs, rhs)>>
      ELSE IF lhs.t = "date" /\ rhs.t = "date" /\ lhs.v # rhs.v
        THEN <<DiffEdit(path, lhs, rhs)>>
      ELSE IF ltype = "object" /\ lhs # Null /\ rhs # Null
        THEN (IF IsArr(lhs)
                THEN ArrayDiff(lhs, rhs, path, 0, ver)
                ELSE ObjectDiff(lhs, rhs, path, 1, 1, ver))
      ELSE IF lhs # rhs THEN <<DiffEdit(path, lhs, rhs)>>
      ELSE <<>>

\* The keys of lhs first (pass 1), then the keys only rhs has (pass 2).
ObjectDiff(lhs, rhs, path, pass, n, ver) ==
  IF n > Len(KeyOrder)
    THEN (IF pass = 1 THEN ObjectDiff(lhs, rhs, path, 2, 1, ver) ELSE <<>>)
  ELSE
    LET k == KeyOrder[n]
        visit == IF pass = 1 THEN k \in Keys(lhs)
                 ELSE k \in Keys(rhs) \ Keys(lhs)
        here == IF visit /\ ~filterUpdatedProperties(path, k)
                  THEN deepDiff(Prop(lhs, k), Prop(rhs, k), Append(path, k), ver)
                  ELSE <<>>
    IN  here \o ObjectDiff(lhs, rhs, path, pass, n + 1, ver)

\* lhs is an array; i is the index reached.  rhs.length is undefined when rhs
\* is no array, and every comparison with it is then false.
ArrayDiff(lhs, rhs, path, i, ver) ==
  LET llen == Len(lhs.e)
      hasLen == IsArr(rhs)
      rlen == IF hasLen THEN Len(rhs.e) ELSE 0
  IN  IF i < llen
        THEN (IF hasLen /\ i >= rlen
                THEN <<DiffArray(path, i, DiffDeleted(<<>>, lhs.e[i + 1]))>>
              ELSE IF filterUpdatedProperties(path, ToStr(i)) THEN <<>>
              ELSE IF ver = "wrapped"
                THEN WrapAll(path, i,
                       deepDiff(lhs.e[i + 1], Prop(rhs, ToStr(i)), <<>>, ver))
              ELSE deepDiff(lhs.e[i + 1], Prop(rhs, ToStr(i)),
                            Append(path, ToStr(i)), ver))
             \o ArrayDiff(lhs, rhs, path, i + 1, ver)
      ELSE IF hasLen /\ i < rlen
        THEN <<DiffArray(path, i, DiffNew(<<>>, rhs.e[i + 1]))>>
             \o ArrayDiff(lhs, rhs, path, i + 1, ver)
      ELSE <<>>

\* deep.observableDiff(orig, updated, push, prefilter), with the deep-diff
\* that is installed
observableDiff(orig, updated, ver) == deepDiff(orig, updated, <<>>, ver)

(***************************************************************************)
(* _makeUpdateSet: the change records compiled into $set and $unset.       *)
(***************************************************************************)
RECURSIVE JoinDot(_)
\* path.join('.')
JoinDot(path) ==
  IF Len(path) = 0 THEN ""
  ELSE IF Len(path) = 1 THEN path[1]
  ELSE path[1] \o "." \o JoinDot(Tail(path))

\* obj[key] = val
Put(obj, key, val) == [k \in DOMAIN obj \cup {key} |-> IF k = key THEN val ELSE obj[k]]

EmptyObj == [k \in {} |-> Undef]

\* if (!m) { m = {}; }  m[key] = val
PutIn(m, key, val) == Put(IF m = Nil THEN EmptyObj ELSE m, key, val)

\* One turn of the while loop over the change records; acc holds edited and
\* removed, Nil while not yet created.
CompileChange(acc, change) ==
  IF change.kind = "A"
    THEN (IF change.item.kind = "E" \/ change.item.kind = "N"
            THEN [acc EXCEPT !.edited =
                    PutIn(@, JoinDot(change.path) \o "." \o ToStr(change.index),
                          Field(change, "rhs"))]
            ELSE [acc EXCEPT !.removed =
                    PutIn(@, JoinDot(change.path) \o "." \o ToStr(change.index), S(1))])
  ELSE IF change.kind = "E" \/ change.kind = "N"
    THEN [acc EXCEPT !.edited = PutIn(@, JoinDot(change.path), Field(change, "rhs"))]
  ELSE [acc EXCEPT !.removed = PutIn(@, JoinDot(change.path), S(1))]

RECURSIVE CompileAll(_, _, _)
CompileAll(acc, changes, i) ==
  IF i > Len(changes) THEN acc
  ELSE CompileAll(CompileChange(acc, changes[i]), changes, i + 1)

\* A _makeUpdateSet that sets res.$set and res.$unset whether or not anything
\* was edited or removed.
makeUpdateSetOfBoth(orig, updated, ver) ==
  LET changes == observableDiff(orig, updated, ver)
      acc == CompileAll([edited |-> Nil, removed |-> Nil], changes, 1)
  IN  [k \in {"$set", "$unset"}
        |-> IF k = "$set" THEN (IF acc.edited # Nil THEN acc.edited ELSE EmptyObj)
            ELSE (IF acc.removed # Nil THEN acc.removed ELSE EmptyObj)]

\* MongoRepo.prototype._makeUpdateSet(orig, updated): res, an object with $set
\* when something was edited and $unset when something was removed.
makeUpdateSet(orig, updated, ver) ==
  LET changes == observableDiff(orig, updated, ver)
      acc == CompileAll([edited |-> Nil, removed |-> Nil], changes, 1)
  IN  [k \in (IF acc.edited # Nil THEN {"$set"} ELSE {})
             \cup (IF acc.removed # Nil THEN {"$unset"} ELSE {})
        |-> IF k = "$set" THEN acc.edited ELSE acc.removed]

(***************************************************************************)
(* The documents of the model.                                             *)
(***************************************************************************)
Ids == {1, 2}

Scalars == {S(n) : n \in 1..MaxVal}

\* The document with identity id and fields a, arr and o; a field given as
\* Undef is absent.
Doc(id, a, arr, o) ==
  LET all == [k \in {"_id", "a", "arr", "o"} |->
                CASE k = "_id" -> id [] k = "a" -> a [] k = "arr" -> arr [] OTHER -> o]
  IN  Obj([k \in {k \in DOMAIN all : all[k] # Undef} |-> all[k]])

\* An array element that is an object.
Elem(x) == Obj([k \in {"x"} |-> x])

SeqsUpTo(set, n) == UNION {[1..m -> set] : m \in 0..n}

\* The documents _makeUpdateSet is applied to on its own: scalar fields,
\* arrays of scalars and of objects (with the same key or with different
\* keys), nested objects.
DiffArrays ==
  {Arr(e) : e \in SeqsUpTo({S(1), Elem(S(1)), Elem(S(2)), Obj([k \in {"y"} |-> S(1)])},
                           MaxArrLen)}
  \cup {Arr([i \in 1..n |-> S(i)]) : n \in 0..MaxArrLen}

DiffObjects ==
  {Obj([k \in {k \in {"x", "y"} : (IF k = "x" THEN x ELSE y) # Undef}
        |-> IF k = "x" THEN x ELSE y]) :
     x \in {Undef, S(1), S(2), Arr(<<S(1)>>)}, y \in {Undef, S(1)}}

DiffDocs ==
  {Doc(S(1), a, arr, Undef) : a \in {Undef, S(1)}, arr \in DiffArrays}
  \cup {Doc(S(1), a, Undef, o) :
          a \in {Undef, Null} \cup Scalars, o \in {Undef} \cup DiffObjects}

(***************************************************************************)
(* The store: what MongoDB does with the update set it is sent.  A dotted  *)
(* key is split into its segments; a segment that is a decimal number      *)
(* indexes an array.                                                       *)
(***************************************************************************)
Segments == {KeyOrder[i] : i \in 1..Len(KeyOrder)}

DottedPaths == {<<JoinDot(p), p>> : p \in UNION {[1..m -> Segments] : m \in 1..3}}

\* key.split('.')
SplitDot(key) == (CHOOSE pr \in DottedPaths : pr[1] = key)[2]

WriteError == [t |-> "err"]

Max(a, b) == IF a > b THEN a ELSE b

\* BSON has no undefined: the driver writes it as null.
Bson(val) == IF val = Undef THEN Null ELSE val

RECURSIVE MongoSet(_, _, _)
\* $set of path to val within v (Undef: nothing there yet)
MongoSet(v, path, val) ==
  IF Len(path) = 0 THEN Bson(val)
  ELSE
    LET k == Head(path)
        sub == MongoSet(Prop(v, k), Tail(path), val)
    IN  IF sub = WriteError THEN WriteError
        ELSE IF v = Undef THEN Obj([j \in {k} |-> sub])
        ELSE IF IsObj(v) THEN Obj(Put(v.f, k, sub))
        ELSE IF IsArr(v) /\ IsIndexStr(k)
          THEN Arr([j \in 1..Max(Len(v.e), ParseIndex(k) + 1) |->
                      IF j = ParseIndex(k) + 1 THEN sub
                      ELSE IF j <= Len(v.e) THEN v.e[j] ELSE Null])
        ELSE WriteError

RECURSIVE MongoUnset(_, _)
\* $unset of path within v: a key of an object is removed, an element of an
\* array becomes null, and a path that leads nowhere changes nothing.
MongoUnset(v, path) ==
  LET k == Head(path)
  IN  IF Prop(v, k) = Undef THEN v
      ELSE IF Len(path) = 1
        THEN (IF IsObj(v) THEN Obj([j \in DOMAIN v.f \ {k} |-> v.f[j]])
              ELSE Arr([v.e EXCEPT ![ParseIndex(k) + 1] = Null]))
      ELSE IF IsObj(v) THEN Obj(Put(v.f, k, MongoUnset(v.f[k], Tail(path))))
      ELSE Arr([v.e EXCEPT ![ParseIndex(k) + 1] = MongoUnset(@, Tail(path))])

IsPrefix(p, q) == Len(p) <= Len(q) /\ SubSeq(q, 1, Len(p)) = p

Part(changes, op) == IF op \in DOMAIN changes THEN changes[op] ELSE EmptyObj

\* The store refuses an update whose paths overlap: the same path in $set
\* and $unset, or a path together with one below it.
PathConflict(changes) ==
  LET sets == DOMAIN Part(changes, "$set")
      unsets == DOMAIN Part(changes, "$unset")
  IN  \/ sets \cap unsets # {}
      \/ \E p, q \in sets \cup unsets :
           p # q /\ IsPrefix(SplitDot(p), SplitDot(q))

RECURSIVE MongoSetAll(_, _, _)
MongoSetAll(doc, map, keys) ==
  IF keys = {} \/ doc = WriteError THEN doc
  ELSE LET k == CHOOSE x \in keys : TRUE
       IN  MongoSetAll(MongoSet(doc, SplitDot(k), map[k]), map, keys \ {k})

RECURSIVE MongoUnsetAll(_, _)
MongoUnsetAll(doc, keys) ==
  IF keys = {} THEN doc
  ELSE LET k == CHOOSE x \in keys : TRUE
       IN  MongoUnsetAll(MongoUnset(doc, SplitDot(k)), keys \ {k})

\* An update that takes the update set for the new document: what is not
\* assigned is dropped.
MongoReplace(doc, changes) ==
  MongoSetAll(Obj([k \in {"_id"} |-> Prop(doc, "_id")]),
              Part(changes, "$set"), DOMAIN Part(changes, "$set"))

\* collection.update({_id: id}, changes) on the matching document: the
\* document as written, or WriteError when the store refuses the update
\* (overlapping paths, a path through a scalar, a changed _id).
MongoUpdate(doc, changes) ==
  IF PathConflict(changes) THEN WriteError
  ELSE
    LET set == Part(changes, "$set")
        written == MongoUnsetAll(MongoSetAll(doc, set, DOMAIN set),
                                 DOMAIN Part(changes, "$unset"))
    IN  IF written = WriteError THEN WriteError
        ELSE IF Prop(written, "_id") # Prop(doc, "_id") THEN WriteError
        ELSE written

(***************************************************************************)
(* Errors, events and the hooks of the repository.                         *)
(***************************************************************************)
\* new self._notFoundError(format('%s not found: %s.', self._descriptiveName, id))
NotFoundError(id) ==
  [t |-> "error", class |-> "_notFoundError", message |-> "not found",
   name |-> "Domain model", id |-> id]

\* new this._conflictError('Creating the resource would cause a conflict on the server.')
ConflictError ==
  [t |-> "error", class |-> "_conflictError",
   message |-> "Creating the resource would cause a conflict on the server."]

\* What a validate hook that rejects the model hands to its callback.
ValidationError == [t |-> "error", class |-> "ValidationError", message |-> "invalid"]

\* The errors of the store; message is the text, cut into the pieces that
\* matter: MongoDB reports a duplicate _id as 'E11000 duplicate key error ...'.
DuplicateKeyError ==
  [t |-> "error", class |-> "MongoError",
   message |-> <<"E11000 ", "duplicate key error", " index">>]

WriteRefusedError ==
  [t |-> "error", class |-> "MongoError", message |-> <<"cannot apply the update">>]

ConnectionError ==
  [t |-> "error", class |-> "MongoError", message |-> <<"connection closed">>]

\* msg.indexOf(pattern), counted in pieces; -1 when absent
IndexOf(msg, pattern) ==
  IF \E i \in 1..Len(msg) : msg[i] = pattern
    THEN (CHOOSE i \in 1..Len(msg) :
            msg[i] = pattern /\ \A j \in 1..(i - 1) : msg[j] # pattern) - 1
    ELSE -1

\* MongoRepo.prototype.translateDbError(err)
translateDbErrorKeep(err) == err

\* An error given as a string: its text, cut into pieces like a message.
Str(pieces) == [t |-> "str", v |-> pieces]

\* The TypeError that leaves translateDbError when msg is undefined and
\* msg.indexOf is called.
ThrownTypeError == [t |-> "thrown", class |-> "TypeError"]

\* var msg = (typeof err === 'string') ? err : err.message;
\* if (msg.indexOf('duplicate key error') > 0) return new this._conflictError(...);
\* return err;
translateDbError(err) ==
  IF err.t # "str" /\ "message" \notin DOMAIN err THEN ThrownTypeError
  ELSE LET msg == IF err.t = "str" THEN err.v ELSE err.message
       IN  IF IndexOf(msg, "duplicate key error") > 0 THEN ConflictError ELSE err

\* this._dataIdFromModel(model): the accessor made by
\* _makeModelIdAccessorForPropertyName("_id")
\* options.id: the name of the property that holds the identity, or a
\* callback function(model) { return model[name]; }.
IdByName(name) == [t |-> "name", name |-> name]

IdByCallback(name) == [t |-> "func", name |-> name]

\* this._dataIdFromModel(model): options.id when it is a function, else the
\* accessor that _makeModelIdAccessorForPropertyName(options.id || "_id")
\* makes: if (model) { return model[name]; }
dataIdFromModel(model) ==
  IF model # Undef /\ model # Nil
    THEN Prop(model, IF options.id = Undef THEN "_id" ELSE options.id.name)
    ELSE Undef

\* _transformData and _transformModel return their argument.
transformData(data) == data

transformModel(model) == model

\* A call of a completion callback: callback(err, res).
Callback(err, res) == [err |-> err, res |-> res]

FetchedEventData(id, model) == [name |-> "fetched", id |-> id, model |-> model]

CreatedEventData(id, model) == [name |-> "created", id |-> id, model |-> model]

UpdatedEventData(id, changeSet, affected) ==
  [name |-> "updated", id |-> id, changeSet |-> changeSet, affected |-> affected]

(***************************************************************************)
(* The calls.  A call is idle until it is made; then pc names the store    *)
(* request it waits for, and "done" says that nothing more will happen.    *)
(* cb lists the invocations of its completion callback, thrown the         *)
(* exception raised inside a callback of the store, events what it         *)
(* emitted, writes the write requests it sent to the store.                *)
(***************************************************************************)
Calls == 1..MaxCalls

IdleCall ==
  [op |-> "none", pc |-> "idle", id |-> Undef, model |-> Nil, updated |-> Nil,
   data |-> Nil, changes |-> Nil, models |-> <<>>, pend |-> {}, count |-> 0,
   invalid |-> <<>>, valid |-> <<>>, cb |-> <<>>, thrown |-> "none",
   events |-> <<>>, writes |-> 0, match |-> Nil, query |-> Nil, log |-> <<>>,
   window |-> Nil, cursor |-> Nil, read |-> 0, out |-> <<>>, ended |-> FALSE]

\* What a call does is noted in its log, in the order in which it happens:
\* "validate" when the validate hook is called, the name of a request when
\* it is sent to the store, "ok" or "error" when the store answers,
\* "translateDbError" when the hook is called, "emit", "callback", "throw".
Log(call, what) == [call EXCEPT !.log = Append(@, what)]

\* The callback of a store request is entered with (err, res).
Answered(call, err) == Log(call, IF err = Null THEN "ok" ELSE "error")

\* An assertion that lets everything pass.
AssertAnything(arg) == TRUE

\* assert.object(arg, name)
AssertObject(arg) == arg.t \in {"obj", "arr", "date"}

\* assert.ok(arg, name)
AssertOk(arg) == ~Falsy(arg)

\* assert.arrayOfObject(arg, name)
AssertArrayOfObject(arg) ==
  IsArr(arg) /\ \A i \in 1..Len(arg.e) : AssertObject(arg.e[i])

\* An assertion on the arguments fails: the AssertionError is raised at the
\* call site, before anything else is done.
AssertFails(call) == [call EXCEPT !.pc = "done", !.thrown = "AssertionError"]

\* The next call is made on the first idle slot.
CanCall(c) == calls[c].pc = "idle" /\ \A d \in 1..(c - 1) : calls[d].pc # "idle"

\* The callback is invoked and the call ends.
Finish(call, err, res) ==
  [call EXCEPT !.pc = "done", !.cb = Append(@, Callback(err, res)),
               !.log = Append(@, "callback")]

\* return callback(self.translateDbError(err));
FinishTranslated(call, err) ==
  Finish(Log(call, "translateDbError"), translateDbError(err), Undef)

\* An exception leaves the callback of the store: the call ends there.
Throw(call, exception) ==
  [call EXCEPT !.pc = "done", !.thrown = exception, !.log = Append(@, "throw")]

Emit(call, event) ==
  [call EXCEPT !.events = Append(@, event), !.log = Append(@, "emit")]

\* The default _objectNotFound(id, callback): callback(new _notFoundError(...)).
\* Without a callback, calling it raises a TypeError.
objectNotFoundSilent(call, id, callback) == Finish(call, Undef, Undef)

objectNotFound(call, id, callback) ==
  IF callback = "callback" THEN Finish(call, NotFoundError(id), Undef)
  ELSE Throw(call, "TypeError")

\* The default _objectNotFoundOnUpdate(model, callback):
\*   self._objectNotFound(self._dataIdFromModel(model, callback));
\* the callback goes to the accessor, and _objectNotFound gets none.
objectNotFoundOnUpdate(call, model, callback) ==
  objectNotFound(call, dataIdFromModel(model), "undefined")

\* The documents and models of the calls: a scalar field a, an array arr.
MainDocs ==
  {Doc(S(1), a, Undef, Undef) : a \in {Undef, S(1), S(2)}}
  \cup {Doc(S(1), a, Arr([i \in 1..n |-> S(i)]), Undef) :
          a \in {Undef, S(1)}, n \in 0..MaxLen}
  \cup {Doc(S(2), a, Undef, Undef) : a \in {Undef, S(1)}}

Models == MainDocs

\* A findOne whose filter leaves the identity out: the stored document with
\* the highest _id, or null.
FindOneOfAny(id) ==
  IF \E i \in Ids : collection[i] # Nil
    THEN collection[CHOOSE i \in Ids :
                      collection[i] # Nil /\ \A j \in Ids : collection[j] # Nil => j <= i]
    ELSE Null

\* findOne({_id: id}): the stored document, or null
FindOne(id) ==
  IF id.t = "s" /\ id.v \in Ids /\ collection[id.v] # Nil THEN collection[id.v] ELSE Null

IdOf(doc) == Prop(doc, "_id").v

(***************************************************************************)
(* getById(id, callback)                                                   *)
(***************************************************************************)
\* getById: assert.ok(id), then findOne({_id: id}, ...) is sent.
GetById(c, id) ==
  /\ CanCall(c)
  /\ LET call == [IdleCall EXCEPT !.op = "getById", !.id = id]
     IN  calls' = [calls EXCEPT ![c] =
           IF ~AssertOk(id) THEN AssertFails(call)
           ELSE Log([call EXCEPT !.pc = "findOne"], "findOne")]
  /\ UNCHANGED <<collection, pureVars, envVars>>

\* The callback of getById's findOne, with the store's answer (err, data).
GetByIdFetchedCall(answered, err, data) ==
  LET call == Answered(answered, err) IN
  IF err # Null THEN Finish(call, err, Undef)
  ELSE IF data = Null THEN objectNotFound(call, call.id, "callback")
  ELSE LET model == transformData(data)
       IN  Finish(Emit(call, FetchedEventData(call.id, model)), Null, model)

GetByIdFetched(c) ==
  /\ calls[c].op = "getById" /\ calls[c].pc = "findOne"
  /\ \E err \in {Null, ConnectionError} :
       calls' = [calls EXCEPT ![c] =
                   GetByIdFetchedCall(@, err, IF err = Null THEN FindOne(calls[c].id) ELSE Undef)]
  /\ UNCHANGED <<collection, pureVars, envVars>>

(***************************************************************************)
(* create(model, callback)                                                 *)
(***************************************************************************)
\* if (!data._id) { var id = self._dataIdFromModel(model); if (id) data._id = id; }
WithId(data, model) ==
  IF Falsy(Prop(data, "_id")) /\ ~Falsy(dataIdFromModel(model))
    THEN Obj(Put(data.f, "_id", dataIdFromModel(model)))
    ELSE data

\* A Date: the instant it holds.
Date(instant) == [t |-> "date", v |-> instant]

\* JsonPointer.create('#/name'): the pointer to the property name of the
\* document, kept as its path.
Pointer(name) == <<name>>

\* The json-ptr installed: pointer.set(obj, val) assigns where the container
\* of the last segment exists; where a container on the way is missing,
\* "existing" leaves obj as it is and "creating" makes the containers.
PointerVersions == {"existing", "creating"}

RECURSIVE SetWithin(_, _, _)
\* pointer.set(v, val) for the path of a pointer that goes through containers
SetWithin(v, path, val) ==
  IF ~IsObj(v) THEN v
  ELSE IF Len(path) = 1 THEN Obj(Put(v.f, path[1], val))
  ELSE LET sub == Prop(v, path[1])
       IN  IF IsObj(sub) THEN Obj(Put(v.f, path[1], SetWithin(sub, Tail(path), val)))
           ELSE IF sub = Undef /\ jsonPtr = "creating"
             THEN Obj(Put(v.f, path[1], SetWithin(Obj(EmptyObj), Tail(path), val)))
           ELSE v

\* pointers[i].set(obj, val): for a pointer to a property of obj the property
\* is assigned
PointerSet(obj, pointer, val) ==
  IF Len(pointer) = 1 THEN Obj(Put(obj.f, pointer[1], val))
  ELSE SetWithin(obj, pointer, val)

\* pointer.get(obj)
PointerGet(obj, pointer) == Prop(obj, pointer[1])

RECURSIVE SetFrom(_, _, _, _)
\* The while loop of setValueForAllPointers, from pointers[i] on.
SetFrom(obj, pointers, val, i) ==
  IF i > Len(pointers.e) THEN obj
  ELSE SetFrom(PointerSet(obj, pointers.e[i], val), pointers, val, i + 1)

\* setValueForAllPointers(obj, pointers, val)
setValueForAllPointers(obj, pointers, val) ==
  IF pointers # Undef /\ Len(pointers.e) > 0 THEN SetFrom(obj, pointers, val, 1) ELSE obj

\* A loop that stops after its first turn.
setTimestampForFirstPointer(obj, pointers) ==
  IF pointers # Undef
    THEN setValueForAllPointers(obj, Arr(SubSeq(pointers.e, 1, 1)), Date(now))
    ELSE obj

\* setTimestampForAllPointers(obj, pointers): the clock is read once, and
\* the Date made of it is set at every pointer.
setTimestampForAllPointers(obj, pointers) ==
  IF pointers # Undef THEN setValueForAllPointers(obj, pointers, Date(now)) ELSE obj

\* _beforeCreateDataModel(data): the create timestamps are set, when the
\* repository has timestampOnCreate.
beforeCreateDataModel(data) ==
  setTimestampForAllPointers(data, options.timestampOnCreate)

\* _beforeUpdateDataModel(data): the update timestamps are set, when the
\* repository has timestampOnUpdate.
beforeUpdateDataModel(data) ==
  setTimestampForAllPointers(data, options.timestampOnUpdate)

\* create: assert.object(model), validate(model, postValidateCreate); verdict is
\* what the validate hook answers.  When it accepts, insert(data, {w: 1}, ...)
\* is sent.
Create(c, model, verdict) ==
  /\ CanCall(c)
  /\ LET call == [IdleCall EXCEPT !.op = "create", !.model = model]
     IN  calls' = [calls EXCEPT ![c] =
           IF ~AssertObject(model) THEN AssertFails(call)
           ELSE IF verdict # Null THEN Finish(Log(call, "validate"), verdict, Undef)
           ELSE Log([Log(call, "validate") EXCEPT
                       !.pc = "insert", !.writes = @ + 1,
                       !.updated = WithId(beforeCreateDataModel(transformModel(model)), model)],
                    "insert")]
  /\ UNCHANGED <<collection, pureVars, envVars>>

\* The callback of create's insert.
CreateInsertedCall(answered, err, res) ==
  LET call == Answered(answered, err) IN
  IF err # Null THEN FinishTranslated(call, err)
  ELSE LET model == transformData(res)
       IN  IF Falsy(dataIdFromModel(model)) THEN Throw(call, "AssertionError")
           ELSE Finish(Emit(call, CreatedEventData(dataIdFromModel(model), model)), Null, model)

\* The store inserts the document unless its _id is taken.
CreateInserted(c) ==
  /\ calls[c].op = "create" /\ calls[c].pc = "insert"
  /\ LET data == calls[c].updated
     IN  \/ /\ collection[IdOf(data)] = Nil
            /\ collection' = [collection EXCEPT ![IdOf(data)] = data]
            /\ calls' = [calls EXCEPT ![c] = CreateInsertedCall(@, Null, data)]
         \/ /\ collection[IdOf(data)] # Nil
            /\ calls' = [calls EXCEPT ![c] = CreateInsertedCall(@, DuplicateKeyError, Undef)]
            /\ UNCHANGED collection
         \/ /\ calls' = [calls EXCEPT ![c] = CreateInsertedCall(@, ConnectionError, Undef)]
            /\ UNCHANGED collection
  /\ UNCHANGED <<pureVars, envVars>>

(***************************************************************************)
(* update(model, callback)                                                 *)
(***************************************************************************)
\* An update whose postValidateUpdate calls back with the error of the hook
\* and goes on to the fetch.
UpdateFallsThrough(c, model, verdict) ==
  /\ CanCall(c)
  /\ LET call == [IdleCall EXCEPT !.op = "update", !.model = model]
         told == IF verdict # Null
                   THEN [Log(Log(call, "validate"), "callback") EXCEPT
                           !.cb = Append(@, Callback(verdict, Undef))]
                   ELSE Log(call, "validate")
     IN  calls' = [calls EXCEPT ![c] =
           IF ~AssertObject(model) THEN AssertFails(call)
           ELSE Log([told EXCEPT
                       !.pc = "findOne",
                       !.updated = beforeUpdateDataModel(transformModel(model)),
                       !.id = dataIdFromModel(model)],
                    "findOne")]
  /\ UNCHANGED <<collection, pureVars, envVars>>

\* update: assert.object(model), validate(model, postValidateUpdate).  When the
\* hook accepts, findOne({_id: id}, ...) is sent for the model's identity.
Update(c, model, verdict) ==
  /\ CanCall(c)
  /\ LET call == [IdleCall EXCEPT !.op = "update", !.model = model]
     IN  calls' = [calls EXCEPT ![c] =
           IF ~AssertObject(model) THEN AssertFails(call)
           ELSE IF verdict # Null THEN Finish(Log(call, "validate"), verdict, Undef)
           ELSE Log([Log(call, "validate") EXCEPT
                       !.pc = "findOne",
                       !.updated = beforeUpdateDataModel(transformModel(model)),
                       !.id = dataIdFromModel(model)],
                    "findOne")]
  /\ UNCHANGED <<collection, pureVars, envVars>>

\* if (changes.$set || changes.$unset)
HasChangesAlways(changes) == TRUE

HasChanges(changes) == "$set" \in DOMAIN changes \/ "$unset" \in DOMAIN changes

\* if (self._timestampOnUpdate) { if (!changes.$set) changes.$set = {};
\*   setValueForAllPointers(changes.$set, self._timestampOnUpdate, new Date()); }
injectTimestamps(changes) ==
  IF options.timestampOnUpdate # Undef
    THEN Put(changes, "$set",
             setValueForAllPointers(Obj(Part(changes, "$set")),
                                    options.timestampOnUpdate, Date(now)).f)
    ELSE changes

\* A callback of update's findOne that keeps the document an earlier update
\* of the same identity fetched, when there is one, instead of its own.
UpdateFetchedCallCached(answered, err, data, ver) ==
  LET call == Answered(answered, err)
      earlier == {d \in Calls : /\ calls[d].op = "update" /\ calls[d].id = answered.id
                                /\ calls[d].data # Nil}
      kept == IF earlier = {} \/ data = Null \/ err # Null THEN data
              ELSE calls[CHOOSE d \in earlier : \A e \in earlier : d <= e].data
  IN
  IF err # Null THEN FinishTranslated(call, err)
  ELSE IF kept = Null THEN objectNotFoundOnUpdate(call, call.model, "callback")
  ELSE LET changes == makeUpdateSet(kept, call.updated, ver)
       IN  IF HasChanges(changes)
             THEN Log([call EXCEPT !.data = kept, !.changes = injectTimestamps(changes),
                                   !.pc = "update", !.writes = @ + 1],
                      "update")
             ELSE Finish([call EXCEPT !.data = kept, !.changes = changes], Undef, Undef)

\* The callback of update's findOne: the update set is made from the fetched
\* document and sent to the store, unless it is empty.
UpdateFetchedCall(answered, err, data, ver) ==
  LET call == Answered(answered, err) IN
  IF err # Null THEN FinishTranslated(call, err)
  ELSE IF data = Null THEN objectNotFoundOnUpdate(call, call.model, "callback")
  ELSE LET changes == makeUpdateSet(data, call.updated, ver)
       IN  IF HasChanges(changes)
             THEN Log([call EXCEPT !.data = data, !.changes = injectTimestamps(changes),
                                   !.pc = "update", !.writes = @ + 1],
                      "update")
             ELSE Finish([call EXCEPT !.data = data, !.changes = changes], Undef, Undef)

UpdateFetched(c) ==
  /\ calls[c].op = "update" /\ calls[c].pc = "findOne"
  /\ \E err \in {Null, ConnectionError}, ver \in DeepVersions :
       calls' = [calls EXCEPT ![c] =
                   UpdateFetchedCall(@, err, IF err = Null THEN FindOne(calls[c].id) ELSE Undef, ver)]
  /\ UNCHANGED <<collection, pureVars, envVars>>

\* What the collection answers to a write that affected n documents: an
\* object carrying the count, or the bare count.
WriteResults(n) == {Obj([k \in {"ok", "n"} |-> IF k = "ok" THEN S(1) ELSE S(n)]), S(n)}

\* The callback of update's collection.update.
UpdateWrittenCall(answered, err, res) ==
  LET call == Answered(answered, err) IN
  IF err # Null THEN FinishTranslated(call, err)
  ELSE IF ~Falsy(res)
    THEN (IF Falsy(call.id) \/ Prop(res, "n").t # "s" THEN Throw(call, "AssertionError")
          ELSE Finish(Emit(call, UpdatedEventData(call.id, call.changes, Prop(res, "n"))),
                      Null, res))
  ELSE objectNotFoundOnUpdate(call, call.model, "callback")

\* A write sent with upsert: where no document has the _id, the store makes
\* one from the _id and the update set.
UpdateWrittenUpserts(c) ==
  /\ calls[c].op = "update" /\ calls[c].pc = "update"
  /\ LET doc == FindOne(calls[c].id)
         written == MongoUpdate(IF doc = Null THEN Obj([k \in {"_id"} |-> calls[c].id])
                                ELSE doc,
                                calls[c].changes)
     IN  \/ /\ written # WriteError
            /\ collection' = [collection EXCEPT ![calls[c].id.v] = written]
            /\ \E res \in WriteResults(1) :
                 calls' = [calls EXCEPT ![c] = UpdateWrittenCall(@, Null, res)]
         \/ /\ written = WriteError
            /\ calls' = [calls EXCEPT ![c] = UpdateWrittenCall(@, WriteRefusedError, Undef)]
            /\ UNCHANGED collection
         \/ /\ calls' = [calls EXCEPT ![c] = UpdateWrittenCall(@, ConnectionError, Undef)]
            /\ UNCHANGED collection
  /\ UNCHANGED <<pureVars, envVars>>

\* The store applies the update set to the document with the _id, if there
\* is one, and answers.
UpdateWritten(c) ==
  /\ calls[c].op = "update" /\ calls[c].pc = "update"
  /\ LET doc == FindOne(calls[c].id)
         written == IF doc = Null THEN Null ELSE MongoUpdate(doc, calls[c].changes)
     IN  \/ /\ doc = Null
            /\ \E res \in WriteResults(0) :
                 calls' = [calls EXCEPT ![c] = UpdateWrittenCall(@, Null, res)]
            /\ UNCHANGED collection
         \/ /\ doc # Null /\ written # WriteError
            /\ collection' = [collection EXCEPT ![IdOf(doc)] = written]
            /\ \E res \in WriteResults(1) :
                 calls' = [calls EXCEPT ![c] = UpdateWrittenCall(@, Null, res)]
         \/ /\ doc # Null /\ written = WriteError
            /\ calls' = [calls EXCEPT ![c] = UpdateWrittenCall(@, WriteRefusedError, Undef)]
            /\ UNCHANGED collection
         \/ /\ calls' = [calls EXCEPT ![c] = UpdateWrittenCall(@, ConnectionError, Undef)]
            /\ UNCHANGED collection
  /\ UNCHANGED <<pureVars, envVars>>

(***************************************************************************)
(* del(id, callback)                                                       *)
(***************************************************************************)
\* A query that leaves the identity out: it matches every document.
IdRefOfAny(id) == Obj(EmptyObj)

\* {_id: id}
IdRef(id) == Obj([k \in {"_id"} |-> id])

\* A document matches a query when it has the value the query gives for
\* each of the query's keys.
Matches(doc, query) == \A k \in DOMAIN query.f : Prop(doc, k) = query.f[k]

\* remove(query): the collection without the documents that match, and the
\* number of documents removed.
Remove(coll, query) ==
  [id \in Ids |-> IF coll[id] # Nil /\ Matches(coll[id], query) THEN Nil ELSE coll[id]]

Removed(coll, query) ==
  Cardinality({id \in Ids : coll[id] # Nil /\ Matches(coll[id], query)})

\* del: assert.ok(id), then remove({_id: id}, {w: 1}, ...) is sent.
Del(c, id) ==
  /\ CanCall(c)
  /\ LET call == [IdleCall EXCEPT !.op = "del", !.id = id]
     IN  calls' = [calls EXCEPT ![c] =
           IF ~AssertOk(id) THEN AssertFails(call)
           ELSE Log([call EXCEPT !.pc = "remove", !.writes = 1, !.query = IdRef(id)],
                    "remove")]
  /\ UNCHANGED <<collection, pureVars, envVars>>

\* A callback of remove that emits before it looks at err.
DelRemovedCallEmitsFirst(answered, err, res) ==
  LET call == Emit(Answered(answered, err), [name |-> "deleted", payload |-> answered.id]) IN
  IF err # Null THEN FinishTranslated(call, err)
  ELSE Finish(call, Null, res)

\* The callback of del's remove.
DelRemovedCall(answered, err, res) ==
  LET call == Answered(answered, err) IN
  IF err # Null THEN FinishTranslated(call, err)
  ELSE Finish(IF ~Falsy(res) THEN Emit(call, [name |-> "deleted", payload |-> call.id])
              ELSE call,
              Null, res)

DelRemoved(c) ==
  /\ calls[c].op = "del" /\ calls[c].pc = "remove"
  /\ \/ /\ collection' = Remove(collection, calls[c].query)
        /\ \E res \in WriteResults(Removed(collection, calls[c].query)) :
             calls' = [calls EXCEPT ![c] = DelRemovedCall(@, Null, res)]
     \/ /\ calls' = [calls EXCEPT ![c] = DelRemovedCall(@, ConnectionError, Undef)]
        /\ UNCHANGED collection
  /\ UNCHANGED <<pureVars, envVars>>

(***************************************************************************)
(* delMatch(match, callback)                                               *)
(***************************************************************************)
\* The queries given to delMatch and findMatch: every document, the
\* documents with a given field value, the document with a given _id.
MatchSpecs ==
  {Obj(EmptyObj), Obj([k \in {"a"} |-> S(1)]), Obj([k \in {"_id"} |-> S(2)])}

\* A delMatch that sends the query of everything instead of its match.
DelMatchEverything(c, match) ==
  /\ CanCall(c)
  /\ LET call == [IdleCall EXCEPT !.op = "delMatch", !.match = match]
     IN  calls' = [calls EXCEPT ![c] =
           IF ~AssertObject(match) THEN AssertFails(call)
           ELSE Log([call EXCEPT !.pc = "remove", !.writes = 1, !.query = Obj(EmptyObj)],
                    "remove")]
  /\ UNCHANGED <<collection, pureVars, envVars>>

\* delMatch: assert.object(match), then remove(match, {w: 1}, ...) is sent.
DelMatch(c, match) ==
  /\ CanCall(c)
  /\ LET call == [IdleCall EXCEPT !.op = "delMatch", !.match = match]
     IN  calls' = [calls EXCEPT ![c] =
           IF ~AssertObject(match) THEN AssertFails(call)
           ELSE Log([call EXCEPT !.pc = "remove", !.writes = 1, !.query = match],
                    "remove")]
  /\ UNCHANGED <<collection, pureVars, envVars>>

\* The callback of delMatch's remove.
DelMatchRemovedCall(answered, err, res) ==
  LET call == Answered(answered, err) IN
  IF err # Null THEN FinishTranslated(call, err)
  ELSE Finish(IF ~Falsy(res)
                THEN Emit(call, [name |-> "deleted",
                                 payload |-> [match |-> call.match, count |-> res]])
              ELSE call,
              Null, res)

DelMatchRemoved(c) ==
  /\ calls[c].op = "delMatch" /\ calls[c].pc = "remove"
  /\ \/ /\ collection' = Remove(collection, calls[c].query)
        /\ \E res \in WriteResults(Removed(collection, calls[c].query)) :
             calls' = [calls EXCEPT ![c] = DelMatchRemovedCall(@, Null, res)]
     \/ /\ calls' = [calls EXCEPT ![c] = DelMatchRemovedCall(@, ConnectionError, Undef)]
        /\ UNCHANGED collection
  /\ UNCHANGED <<pureVars, envVars>>

(***************************************************************************)
(* findMatch(match, callback)                                              *)
(***************************************************************************)
\* new ModelTransformStream(this._transformData.bind(this)), fed by the
\* cursor of find(match).
ModelTransformStream(match) == [t |-> "stream", match |-> match]

\* What this._collection.find(match).stream() raises when it fails.
CursorError == [t |-> "error", class |-> "MongoError", message |-> <<"cursor failed">>]

\* A catch that throws the error on to the caller.
findCatchRethrows(call, err) == Throw(call, "MongoError")

\* catch (err) { callback(err); }
findCatch(call, err) == Finish(call, err, Undef)

\* What the caller's callback raises, when it raises.
CallbackError == [t |-> "error", class |-> "Error", message |-> <<"callback failed">>]

\* The catch of findMatch and findWindowedMatch has invoked the callback with
\* the error; raises is the number of invocations the caller's callback
\* answers by raising.  What it raises here leaves the call.
caught(call, raises) == IF raises >= 1 THEN Throw(call, "Error") ELSE call

\* try { ... callback(null, modelTransform); } catch (err) { callback(err); }
\* The callback is invoked inside the try: what it raises is caught and the
\* callback is invoked again, with that.
handOver(call, stream, raises) ==
  IF raises = 0 THEN Finish(call, Null, stream)
  ELSE caught(findCatch(Finish(call, Null, stream), CallbackError), raises - 1)

\* findMatch: assert.object(match); the cursor is made and piped into the
\* transform stream, which is handed to the callback; what is raised on the
\* way is handed to the callback instead.
FindMatchWith(c, match, raises) ==
  /\ CanCall(c)
  /\ LET call == [IdleCall EXCEPT !.op = "findMatch", !.match = match]
     IN  \E err \in {Null, CursorError} :
           calls' = [calls EXCEPT ![c] =
             IF ~AssertObject(match) THEN AssertFails(call)
             ELSE IF err # Null
               THEN caught(findCatch(Log(Log(call, "find"), "error"), err), raises)
             ELSE handOver(Log(Log(call, "find"), "ok"), ModelTransformStream(match), raises)]
  /\ UNCHANGED <<collection, pureVars, envVars>>

\* findMatch with a callback that returns.
FindMatch(c, match) == FindMatchWith(c, match, 0)

(***************************************************************************)
(* findWindowedMatch(match, sort, skip, limit, callback)                   *)
(***************************************************************************)
\* assert.number(arg)
AssertNumber(arg) == arg.t = "s"

\* findWindowedMatch: the asserts; the cursor is made with sort, skip and
\* limit and piped into the transform stream, which is handed to the
\* callback; what is raised on the way is handed to the callback instead.
FindWindowedMatchWith(c, match, sort, skip, limit, raises) ==
  /\ CanCall(c)
  /\ LET call == [IdleCall EXCEPT !.op = "findWindowedMatch", !.match = match,
                                  !.model = [sort |-> sort, skip |-> skip, limit |-> limit]]
     IN  \E err \in {Null, CursorError} :
           calls' = [calls EXCEPT ![c] =
             IF ~(AssertObject(match) /\ AssertObject(sort)
                  /\ AssertNumber(skip) /\ AssertNumber(limit))
               THEN AssertFails(call)
             ELSE IF err # Null
               THEN caught(findCatch(Log(Log(call, "find"), "error"), err), raises)
             ELSE handOver(Log(Log([call EXCEPT !.window =
                                      [sort |-> sort, skip |-> skip.v, limit |-> limit.v]],
                                   "find"), "ok"),
                           ModelTransformStream(match), raises)]
  /\ UNCHANGED <<collection, pureVars, envVars>>

\* findWindowedMatch with a callback that returns.
FindWindowedMatch(c, match, sort, skip, limit) ==
  FindWindowedMatchWith(c, match, sort, skip, limit, 0)

(***************************************************************************)
(* The cursor and the stream.  The cursor runs its query when the stream   *)
(* starts to flow; each document it yields goes through _transform of the  *)
(* ModelTransformStream, and the stream ends after the cursor has ended.   *)
(***************************************************************************)
RECURSIVE FindFrom(_, _, _)
\* find(query): the matching documents, in the order of the collection.
FindFrom(coll, query, id) ==
  IF id \notin DOMAIN coll THEN <<>>
  ELSE (IF coll[id] # Nil /\ Matches(coll[id], query) THEN <<coll[id]>> ELSE <<>>)
       \o FindFrom(coll, query, id + 1)

Find(coll, query) == FindFrom(coll, query, 1)

\* The field a sort specification names, and its direction (1 or -1).
SortField(sort) == CHOOSE k \in DOMAIN sort.f : TRUE

\* The place of a value in the order of a sort: what is missing comes first.
Rank(v) == IF v.t = "s" THEN v.v ELSE 0

Before(d, e, sort) ==
  LET k == SortField(sort)
  IN  IF sort.f[k].v > 0 THEN Rank(Prop(d, k)) < Rank(Prop(e, k))
      ELSE Rank(Prop(d, k)) > Rank(Prop(e, k))

RECURSIVE InsertSorted(_, _, _)
InsertSorted(sorted, d, sort) ==
  IF sorted = <<>> THEN <<d>>
  ELSE IF Before(d, Head(sorted), sort) THEN <<d>> \o sorted
  ELSE <<Head(sorted)>> \o InsertSorted(Tail(sorted), d, sort)

RECURSIVE SortDocs(_, _)
\* cursor.sort(sort)
SortDocs(docs, sort) ==
  IF docs = <<>> THEN <<>>
  ELSE InsertSorted(SortDocs(SubSeq(docs, 1, Len(docs) - 1), sort), docs[Len(docs)], sort)

Min(a, b) == IF a < b THEN a ELSE b

\* cursor.skip(skip).limit(limit); a limit of 0 is no limit.
Window(docs, skip, limit) ==
  SubSeq(docs, skip + 1, IF limit = 0 THEN Len(docs) ELSE Min(Len(docs), skip + limit))

\* The call has handed a stream to its callback.
HasStream(call) ==
  /\ call.op \in {"findMatch", "findWindowedMatch"}
  /\ Len(call.cb) = 1 /\ call.cb[1].err = Null

\* The cursor runs the query: what it will yield.
CursorOpened(c) ==
  /\ HasStream(calls[c]) /\ calls[c].cursor = Nil
  /\ LET found == Find(collection, calls[c].match)
         w == calls[c].window
     IN  calls' = [calls EXCEPT ![c].cursor =
           Arr(IF w = Nil THEN found
               ELSE Window(SortDocs(found, w.sort), w.skip, w.limit))]
  /\ UNCHANGED <<collection, pureVars, envVars>>

\* A _transform that pushes the model twice.
transformTwice(out, data) == out \o <<transformData(data), transformData(data)>>

\* ModelTransformStream.prototype._transform(data, encoding, done):
\* var model = this.transformer(data); this.push(model, encoding); done();
transform(out, data) == Append(out, transformData(data))

\* The cursor yields its next document to the stream.
StreamTransform(c) ==
  /\ HasStream(calls[c]) /\ calls[c].cursor # Nil
  /\ calls[c].read < Len(calls[c].cursor.e)
  /\ calls' = [calls EXCEPT ![c].read = @ + 1,
                            ![c].out = transform(@, calls[c].cursor.e[calls[c].read + 1])]
  /\ UNCHANGED <<collection, pureVars, envVars>>

\* The cursor has ended: the stream flushes and ends.
StreamEnd(c) ==
  /\ HasStream(calls[c]) /\ calls[c].cursor # Nil
  /\ calls[c].read = Len(calls[c].cursor.e) /\ ~calls[c].ended
  /\ calls' = [calls EXCEPT ![c].ended = TRUE]
  /\ UNCHANGED <<collection, pureVars, envVars>>

(***************************************************************************)
(* batchCreate(models, callback)                                           *)
(***************************************************************************)
BatchModels == {Doc(S(id), Undef, Undef, Undef) : id \in Ids} \cup {Doc(S(1), S(1), Undef, Undef)}

\* batchCreate: assert.arrayOfObject(models), then validate is called for
\* every model; the hook answers each in its own time.  Nothing is called for
\* the empty array.
BatchCreate(c, models) ==
  /\ CanCall(c)
  /\ LET call == [IdleCall EXCEPT !.op = "batchCreate", !.model = models]
     IN  calls' = [calls EXCEPT ![c] =
           IF ~AssertArrayOfObject(models) THEN AssertFails(call)
           ELSE [call EXCEPT !.models = models.e,
                             !.pend = 1..Len(models.e),
                             !.log = [i \in 1..Len(models.e) |-> "validate"],
                             !.pc = IF Len(models.e) = 0 THEN "done" ELSE "validate"]]
  /\ UNCHANGED <<collection, pureVars, envVars>>

\* if (invalid.length) { return callback(invalid); }
BatchRejectsNever(invalid) == FALSE

BatchRejects(invalid) == Len(invalid) > 0

\* ea(index, model, err), the callback of the validation of models[index]
\* (index counts from 0): the model is filed under invalid or valid, and with
\* the last answer the batch is rejected or sent to the store.
BatchValidatedCall(call, index, err) ==
  LET model == call.models[index + 1]
      filed == IF err # Null
                 THEN [call EXCEPT !.invalid =
                         Append(@, [index |-> index, model |-> model, error |-> err])]
                 ELSE [call EXCEPT !.valid =
                         Append(@, WithId(beforeCreateDataModel(transformModel(model)), model))]
      counted == [filed EXCEPT !.count = @ + 1, !.pend = @ \ {index + 1}]
  IN  IF counted.count = Len(call.models)
        THEN (IF BatchRejects(counted.invalid)
                THEN Finish(counted, Arr(counted.invalid), Undef)
                ELSE Log([counted EXCEPT !.pc = "insert", !.writes = @ + 1], "insert"))
        ELSE counted

BatchValidated(c) ==
  /\ calls[c].op = "batchCreate" /\ calls[c].pc = "validate"
  /\ \E i \in calls[c].pend, err \in {Null, ValidationError} :
       calls' = [calls EXCEPT ![c] = BatchValidatedCall(@, i - 1, err)]
  /\ UNCHANGED <<collection, pureVars, envVars>>

\* The callback of batchCreate's insert.
BatchInsertedCall(answered, err, res) ==
  LET call == Answered(answered, err) IN
  IF err # Null THEN FinishTranslated(call, err)
  ELSE LET created == [j \in 1..Len(res) |-> transformData(res[j])]
           evt == [j \in 1..Len(res) |->
                     CreatedEventData(dataIdFromModel(created[j]), created[j])]
       IN  IF \E j \in 1..Len(res) : Falsy(dataIdFromModel(created[j]))
             THEN Throw(call, "AssertionError")
             ELSE Finish(Emit(call, [name |-> "created", models |-> evt]), Null, Arr(created))

RECURSIVE InsertMany(_, _, _)
\* The store inserts the documents in their order, up to the first whose _id
\* is taken: the collection after that.
InsertMany(coll, docs, n) ==
  IF n > Len(docs) \/ coll[IdOf(docs[n])] # Nil THEN coll
  ELSE InsertMany([coll EXCEPT ![IdOf(docs[n])] = docs[n]], docs, n + 1)

RECURSIVE AllInserted(_, _, _)
AllInserted(coll, docs, n) ==
  IF n > Len(docs) THEN TRUE
  ELSE IF coll[IdOf(docs[n])] # Nil THEN FALSE
  ELSE AllInserted([coll EXCEPT ![IdOf(docs[n])] = docs[n]], docs, n + 1)

BatchInserted(c) ==
  /\ calls[c].op = "batchCreate" /\ calls[c].pc = "insert"
  /\ LET docs == calls[c].valid
     IN  \/ /\ collection' = InsertMany(collection, docs, 1)
            /\ calls' = [calls EXCEPT ![c] =
                 IF AllInserted(collection, docs, 1)
                   THEN BatchInsertedCall(@, Null, docs)
                   ELSE BatchInsertedCall(@, DuplicateKeyError, Undef)]
         \/ /\ calls' = [calls EXCEPT ![c] = BatchInsertedCall(@, ConnectionError, Undef)]
            /\ UNCHANGED collection
  /\ UNCHANGED <<pureVars, envVars>>

(***************************************************************************)
(* The repository in use: a collection with some documents in it, and up   *)
(* to MaxCalls calls whose store requests interleave.                      *)
(***************************************************************************)
\* The functions checked on their own are not in use.
PureIdle ==
  /\ dOrig = Nil /\ dUpdated = Nil /\ dVersion = "none" /\ dSet = Nil
  /\ tErr = Nil /\ tOut = Nil

\* new MongoRepo(db, {collection: name}): no timestampOnCreate and no
\* timestampOnUpdate.
NoOptions == [timestampOnCreate |-> Undef, timestampOnUpdate |-> Undef, id |-> Undef]

Init ==
  /\ collection \in [Ids -> {Nil} \cup Models]
  /\ \A id \in Ids : collection[id] # Nil => IdOf(collection[id]) = id
  /\ calls = [c \in Calls |-> IdleCall]
  /\ PureIdle
  /\ options = NoOptions /\ now = 0 /\ jsonPtr = "existing"

Verdicts == {Null, ValidationError}

\* Arguments that are no object, identities that are falsy, and arguments
\* that are no array of objects.  null is not among them: whether
\* assert.object lets null pass depends on the assert-plus installed.
BadObjects == {Undef, S(1)}

BadIds == {Undef, S(0)}

BadArrays == {Undef, Arr(<<S(1)>>)}

Next ==
  \/ \E c \in Calls, id \in {S(i) : i \in Ids} \cup BadIds : GetById(c, id)
  \/ \E c \in Calls : GetByIdFetched(c)
  \/ \E c \in Calls, model \in Models \cup BadObjects, verdict \in Verdicts :
       Create(c, model, verdict)
  \/ \E c \in Calls : CreateInserted(c)
  \/ \E c \in Calls, model \in Models \cup BadObjects, verdict \in Verdicts :
       Update(c, model, verdict)
  \/ \E c \in Calls : UpdateFetched(c)
  \/ \E c \in Calls : UpdateWritten(c)
  \/ \E c \in Calls, id \in {S(i) : i \in Ids} \cup BadIds : Del(c, id)
  \/ \E c \in Calls : DelRemoved(c)
  \/ \E c \in Calls, match \in MatchSpecs \cup BadObjects : DelMatch(c, match)
  \/ \E c \in Calls : DelMatchRemoved(c)
  \/ \E c \in Calls, match \in MatchSpecs \cup BadObjects : FindMatch(c, match)
  \/ \E c \in Calls,
        models \in {Arr(m) : m \in SeqsUpTo(BatchModels, MaxBatch)} \cup BadArrays :
       BatchCreate(c, models)
  \/ \E c \in Calls : BatchValidated(c)
  \/ \E c \in Calls : BatchInserted(c)

Spec == Init /\ [][Next]_vars

(***************************************************************************)
(* _makeUpdateSet on its own, applied to every pair of documents.          *)
(***************************************************************************)
DiffInit ==
  /\ collection = [id \in Ids |-> Nil]
  /\ calls = [c \in Calls |-> IdleCall]
  /\ dVersion \in DeepVersions
  /\ dOrig \in DiffDocs /\ dUpdated \in DiffDocs /\ dSet = Nil
  /\ tErr = Nil /\ tOut = Nil
  /\ options = NoOptions /\ now = 0 /\ jsonPtr = "existing"

MakeUpdateSet ==
  /\ dSet = Nil
  /\ dSet' = makeUpdateSet(dOrig, dUpdated, dVersion)
  /\ UNCHANGED <<collection, calls, dOrig, dUpdated, dVersion, tErr, tOut, envVars>>

DiffNext == MakeUpdateSet

DiffSpec == DiffInit /\ [][DiffNext]_vars

(***************************************************************************)
(* Properties of update.                                                   *)
(***************************************************************************)
\* The step in which call c of update ends with its callback told of success
\* (no error).
UpdateSucceeds(c) ==
  /\ calls[c].op = "update" /\ calls[c].pc # "done" /\ calls'[c].pc = "done"
  /\ Len(calls'[c].cb) = 1 /\ Falsy(calls'[c].cb[1].err)

\* C1: when update(B) succeeds, the stored document with B's identity is
\* deep-equal to B, so that getById answers B: fields added, changed and
\* removed, arrays exactly those of B.
C1_UpdateStoresTheModel ==
  [][\A c \in Calls :
       UpdateSucceeds(c) => collection'[calls[c].id.v] = calls[c].updated]_vars

\* The step in which the store answers the findOne of call c of update, and it
\* is no failure of the store.
UpdateFetchAnswered(c) ==
  /\ calls[c].op = "update" /\ calls[c].pc = "findOne" /\ calls'[c].pc # "findOne"
  /\ ~(Len(calls'[c].cb) = 1 /\ calls'[c].cb[1].err = ConnectionError)

\* C3: without timestampOnUpdate, when the model is deep-equal to the stored
\* document, update sends no collection.update, leaves the stored document as
\* it is, emits no 'updated' event, and calls back at once.
C3_NoChangeNoWrite ==
  [][\A c \in Calls :
       (UpdateFetchAnswered(c) /\ collection[calls[c].id.v] = calls[c].updated)
         => /\ calls'[c].pc = "done"
            /\ calls'[c].writes = 0
            /\ calls'[c].events = <<>>
            /\ calls'[c].cb = <<Callback(Undef, Undef)>>
            /\ calls'[c].thrown = "none"
            /\ collection' = collection]_vars

\* An update of a document with the very document ended without a write.
C3_Witness ==
  \E c \in Calls :
    /\ calls[c].op = "update" /\ calls[c].pc = "done"
    /\ calls[c].data = calls[c].updated
    /\ calls[c].writes = 0 /\ calls[c].cb = <<Callback(Undef, Undef)>>

\* C5: when update finds no document with the model's identity, the default
\* handlers hand the not-found error to the callback; nothing is written and
\* no 'updated' event is emitted.
C5_UpdateAbsentCallsBackNotFound ==
  [][\A c \in Calls :
       (UpdateFetchAnswered(c) /\ collection[calls[c].id.v] = Nil)
         => /\ calls'[c].cb = <<Callback(NotFoundError(calls[c].id), Undef)>>
            /\ calls'[c].writes = 0
            /\ calls'[c].events = <<>>]_vars

\* The step in which the store answers the collection.update of call c, and it
\* is no failure of the store.
UpdateWriteAnswered(c) ==
  /\ calls[c].op = "update" /\ calls[c].pc = "update" /\ calls'[c].pc = "done"
  /\ ~(Len(calls'[c].cb) = 1 /\ calls'[c].cb[1].err = ConnectionError)

\* C6: when the fetch of update succeeded but the write affects no document
\* (the document was deleted in between), the callback gets the not-found
\* error and no 'updated' event is emitted, whether the store answers with an
\* object carrying the count 0 or with the bare 0.
C6_WriteOfNothingCallsBackNotFound ==
  [][\A c \in Calls :
       (UpdateWriteAnswered(c) /\ collection[calls[c].id.v] = Nil)
         => /\ calls'[c].cb = <<Callback(NotFoundError(calls[c].id), Undef)>>
            /\ calls'[c].events = <<>>]_vars

(***************************************************************************)
(* Properties of getById, create and batchCreate.                          *)
(***************************************************************************)
\* C4: when getById finds no document with the identity, the callback gets
\* the not-found error naming the identity and no model, and no 'fetched'
\* event is emitted.
C4_GetByIdAbsentCallsBackNotFound ==
  [][\A c \in Calls :
       ( /\ calls[c].op = "getById" /\ calls[c].pc = "findOne"
         /\ calls'[c].pc = "done"
         /\ ~(Len(calls'[c].cb) = 1 /\ calls'[c].cb[1].err = ConnectionError)
         /\ collection[calls[c].id.v] = Nil )
         => /\ calls'[c].cb = <<Callback(NotFoundError(calls[c].id), Undef)>>
            /\ calls'[c].events = <<>>
            /\ calls'[c].thrown = "none"]_vars

\* A getById of an identity that is not stored has ended.
C4_Witness ==
  \E c \in Calls :
    /\ calls[c].op = "getById" /\ calls[c].pc = "done"
    /\ calls[c].cb = <<Callback(NotFoundError(calls[c].id), Undef)>>
    /\ collection[calls[c].id.v] = Nil

\* C9: when create is given a model whose identity is already stored, the
\* callback gets the conflict error, the stored document stays as it is and
\* no 'created' event is emitted.
C9_CreateExistingConflicts ==
  [][\A c \in Calls :
       ( /\ calls[c].op = "create" /\ calls[c].pc = "insert"
         /\ calls'[c].pc = "done"
         /\ ~(Len(calls'[c].cb) = 1 /\ calls'[c].cb[1].err = ConnectionError)
         /\ collection[IdOf(calls[c].updated)] # Nil )
         => /\ calls'[c].cb = <<Callback(ConflictError, Undef)>>
            /\ calls'[c].events = <<>>
            /\ calls'[c].thrown = "none"
            /\ collection' = collection]_vars

\* A create of a stored identity has ended with the conflict error, and the
\* stored document is another than the one create was given.
C9_Witness ==
  \E c \in Calls :
    /\ calls[c].op = "create" /\ calls[c].pc = "done"
    /\ calls[c].cb = <<Callback(ConflictError, Undef)>>
    /\ collection[IdOf(calls[c].updated)] \notin {Nil, calls[c].updated}

\* C10: batchCreate is all-or-nothing on validation.  Once the validation of
\* one model is rejected, the batch sends no insert and emits no event, in
\* whatever order the validations answer; and when all have answered the
\* callback has been called exactly once, with one entry per rejected model:
\* its index, the model and the error.
C10_BatchAllOrNothing ==
  \A c \in Calls :
    (calls[c].op = "batchCreate" /\ Len(calls[c].invalid) > 0)
      => /\ calls[c].writes = 0
         /\ calls[c].events = <<>>
         /\ calls[c].thrown = "none"
         /\ calls[c].pc \in {"validate", "done"}
         /\ calls[c].pc = "validate" <=> calls[c].pend # {}
         /\ calls[c].pc = "validate" => calls[c].cb = <<>>
         /\ calls[c].pc = "done"
              => calls[c].cb = <<Callback(Arr(calls[c].invalid), Undef)>>
         /\ \A j \in 1..Len(calls[c].invalid) :
              LET e == calls[c].invalid[j]
              IN  /\ e.index + 1 \in (1..Len(calls[c].models)) \ calls[c].pend
                  /\ e.model = calls[c].models[e.index + 1]
                  /\ e.error = ValidationError
                  /\ \A i \in 1..Len(calls[c].invalid) :
                       calls[c].invalid[i].index = e.index => i = j
         /\ Len(calls[c].invalid) + Len(calls[c].valid)
              = Len(calls[c].models) - Cardinality(calls[c].pend)

\* A batch of two has ended after the second model was rejected first and the
\* first model was accepted after it.
C10_Witness ==
  \E c \in Calls :
    /\ calls[c].op = "batchCreate" /\ calls[c].pc = "done"
    /\ Len(calls[c].models) = 2 /\ Len(calls[c].valid) = 1
    /\ Len(calls[c].invalid) = 1 /\ calls[c].invalid[1].index = 1
    /\ calls[c].cb = <<Callback(Arr(calls[c].invalid), Undef)>>

(***************************************************************************)
(* Properties of _makeUpdateSet.                                           *)
(***************************************************************************)
RECURSIVE AssignAt(_, _, _)
\* v with val assigned at path
AssignAt(v, path, val) ==
  IF Len(path) = 0 THEN val
  ELSE
    LET k == Head(path)
        sub == AssignAt(Prop(v, k), Tail(path), val)
    IN  IF IsArr(v)
          THEN Arr([j \in 1..Max(Len(v.e), ParseIndex(k) + 1) |->
                      IF j = ParseIndex(k) + 1 THEN sub
                      ELSE IF j <= Len(v.e) THEN v.e[j] ELSE Undef])
        ELSE IF IsObj(v) THEN Obj(Put(v.f, k, sub))
        ELSE Obj([j \in {k} |-> sub])

RECURSIVE AssignAll(_, _, _)
AssignAll(doc, map, keys) ==
  IF keys = {} THEN doc
  ELSE LET k == CHOOSE x \in keys : TRUE
       IN  AssignAll(AssignAt(doc, SplitDot(k), map[k]), map, keys \ {k})

RECURSIVE RemoveAll(_, _)
RECURSIVE KeepFrom(_, _, _)
\* v without what is at the paths: the keys are removed from their objects
\* and the elements from their arrays, all at once.
RemoveAll(v, paths) ==
  IF IsObj(v)
    THEN Obj([k \in {j \in DOMAIN v.f : <<j>> \notin paths} |->
                RemoveAll(v.f[k],
                          {Tail(p) : p \in {q \in paths : Len(q) > 1 /\ Head(q) = k}})])
  ELSE IF IsArr(v) THEN Arr(KeepFrom(v.e, paths, 1))
  ELSE v

KeepFrom(e, paths, i) ==
  IF i > Len(e) THEN <<>>
  ELSE (IF <<ToStr(i - 1)>> \in paths THEN <<>>
        ELSE <<RemoveAll(e[i],
                 {Tail(p) : p \in {q \in paths : Len(q) > 1 /\ Head(q) = ToStr(i - 1)}})>>)
       \o KeepFrom(e, paths, i + 1)

\* The update set applied to a document: what $set names is assigned, what
\* $unset names is removed.
ApplyUpdateSet(doc, changes) ==
  LET set == Part(changes, "$set")
  IN  RemoveAll(AssignAll(doc, set, DOMAIN set),
                {SplitDot(k) : k \in DOMAIN Part(changes, "$unset")})

\* C2: for every pair of documents A and B, the update set _makeUpdateSet(A, B)
\* applied to A yields B.
C2_UpdateSetTurnsOrigIntoUpdated ==
  dSet # Nil => ApplyUpdateSet(dOrig, dSet) = dUpdated

\* C7: for stored {_id: 1, a: 1, arr: [1, 2]} and model {_id: 1, arr: [1, 2, 3]}
\* the update set is exactly $set {'arr.2': 3} and $unset {'a': ...}.
C7_ExampleUpdateSet ==
  ( /\ dSet # Nil
    /\ dOrig = Doc(S(1), S(1), Arr(<<S(1), S(2)>>), Undef)
    /\ dUpdated = Doc(S(1), Undef, Arr(<<S(1), S(2), S(3)>>), Undef) )
    => /\ DOMAIN dSet = {"$set", "$unset"}
       /\ DOMAIN dSet["$set"] = {"arr.2"}
       /\ dSet["$set"]["arr.2"] = S(3)
       /\ DOMAIN dSet["$unset"] = {"a"}

\* C8: differences within an array are compiled at the level of the index.
\* An array that lost its last element gives the removal of 'arr.<index>' and
\* no assignment to 'arr'; an array that gained an element y at its end gives
\* the assignment of y to 'arr.<index>'.
C8_ArrayIndexLevel ==
  LET o == Prop(dOrig, "arr")
      u == Prop(dUpdated, "arr")
  IN  (dSet # Nil /\ IsArr(o) /\ IsArr(u))
        => /\ (Len(o.e) = Len(u.e) + 1 /\ SubSeq(o.e, 1, Len(u.e)) = u.e)
                => /\ "arr." \o ToStr(Len(u.e)) \in DOMAIN Part(dSet, "$unset")
                   /\ "arr" \notin DOMAIN Part(dSet, "$set")
           /\ (Len(u.e) = Len(o.e) + 1 /\ SubSeq(u.e, 1, Len(o.e)) = o.e)
                => /\ "arr." \o ToStr(Len(o.e)) \in DOMAIN Part(dSet, "$set")
                   /\ Part(dSet, "$set")["arr." \o ToStr(Len(o.e))] = u.e[Len(u.e)]

(***************************************************************************)
(* Properties of batchCreate, of the events and of the errors.             *)
(***************************************************************************)
\* C11: a batchCreate of n models that all pass validation, answered by the
\* store without error, has sent exactly one insert with all n documents,
\* emitted exactly one event with one {id, model} record per document, and
\* called back with the array of the n created models.
C11_BatchOfValidModelsIsInserted ==
  \A c \in Calls :
    ( /\ calls[c].op = "batchCreate" /\ calls[c].pc = "done"
      /\ calls[c].thrown = "none" /\ calls[c].invalid = <<>>
      /\ ~(Len(calls[c].cb) = 1 /\ calls[c].cb[1].err # Null) )
      => LET n == Len(calls[c].models)
         IN  /\ calls[c].writes = 1
             /\ Len(calls[c].valid) = n
             /\ Len(calls[c].events) = 1
             /\ calls[c].events[1].name = "created"
             /\ Len(calls[c].events[1].models) = n
             /\ Len(calls[c].cb) = 1
             /\ calls[c].cb[1].res.t = "arr" /\ Len(calls[c].cb[1].res.e) = n

(***************************************************************************)
(* The repository with create timestamps: timestampOnCreate lists one or   *)
(* two pointers, the clock advances between the steps, and models are      *)
(* created.                                                                *)
(***************************************************************************)
MaxNow == 2

CreatedPtr == Pointer("dateCreatedUtc")

UpdatedPtr == Pointer("dateUpdatedUtc")

\* prepareJsonPointers(options.timestampOnCreate): undefined when the option
\* is absent or empty, else the array of the pointers in the order given.
StampOptions ==
  {[timestampOnCreate |-> p, timestampOnUpdate |-> Undef, id |-> Undef] :
     p \in {Undef, Arr(<<CreatedPtr>>), Arr(<<CreatedPtr, UpdatedPtr>>),
            Arr(<<UpdatedPtr, CreatedPtr>>)}}

\* The models created: without the timestamped properties, and one that
\* already carries a value at one of them.
StampModels ==
  {Doc(S(id), a, Undef, Undef) : id \in Ids, a \in {Undef, S(1)}}
  \cup {Obj(Put(Doc(S(1), Undef, Undef, Undef).f, "dateUpdatedUtc", S(1)))}

StampInit ==
  /\ collection = [id \in Ids |-> Nil]
  /\ calls = [c \in Calls |-> IdleCall]
  /\ PureIdle
  /\ options \in StampOptions /\ now = 0 /\ jsonPtr = "existing"

\* Time passes.
Tick ==
  /\ now < MaxNow
  /\ now' = now + 1
  /\ UNCHANGED <<collection, calls, pureVars, options, jsonPtr>>

StampNext ==
  \/ Tick
  \/ \E c \in Calls, model \in StampModels, verdict \in Verdicts : Create(c, model, verdict)
  \/ \E c \in Calls : CreateInserted(c)

StampSpec == StampInit /\ [][StampNext]_vars

\* C12: with several paths in timestampOnCreate, one create call sets all of
\* them to one and the same instant: in the document sent to the store, in
\* the stored document and in the created model handed to the callback, the
\* values at any two create-timestamped paths are the same Date.
C12_CreateTimestampsAreOneInstant ==
  \A c \in Calls :
    ( /\ calls[c].op = "create" /\ calls[c].updated # Nil
      /\ options.timestampOnCreate # Undef )
      => \A i, j \in 1..Len(options.timestampOnCreate.e) :
           LET p == options.timestampOnCreate.e[i]
               q == options.timestampOnCreate.e[j]
               data == calls[c].updated
           IN  /\ PointerGet(data, p).t = "date"
               /\ PointerGet(data, p) = PointerGet(data, q)
               /\ (calls[c].pc = "done" /\ Len(calls[c].cb) = 1 /\ calls[c].cb[1].err = Null)
                    => /\ PointerGet(calls[c].cb[1].res, p) = PointerGet(calls[c].cb[1].res, q)
                       /\ PointerGet(calls[c].cb[1].res, p).t = "date"
                       /\ PointerGet(collection[IdOf(data)], p)
                            = PointerGet(collection[IdOf(data)], q)

\* With two pointers configured, a model that carried another value at one of
\* them was created after the clock had advanced.
C12_Witness ==
  \E c \in Calls :
    /\ calls[c].op = "create" /\ calls[c].pc = "done"
    /\ Len(calls[c].cb) = 1 /\ calls[c].cb[1].err = Null
    /\ options.timestampOnCreate # Undef /\ Len(options.timestampOnCreate.e) = 2
    /\ Prop(calls[c].model, "dateUpdatedUtc") = S(1)
    /\ Prop(calls[c].cb[1].res, "dateUpdatedUtc") = Date(1)
    /\ Prop(calls[c].cb[1].res, "dateCreatedUtc") = Date(1)

\* The positions of the log of call c that hold what.
Where(c, what) == {i \in 1..Len(calls[c].log) : calls[c].log[i] = what}

\* C13: the lifecycle event of an operation is emitted only after the store
\* has reported success for the operation's read or write (for update: the
\* write), and strictly before the completion callback is invoked; when the
\* store reports an error no event is emitted.
C13_EventAfterSuccessBeforeCallback ==
  \A c \in Calls :
    LET log == calls[c].log
    IN  /\ Cardinality(Where(c, "emit")) = Len(calls[c].events)
        /\ Where(c, "error") # {} => calls[c].events = <<>>
        /\ \A i \in Where(c, "emit") :
             /\ i > 1 /\ log[i - 1] = "ok"
             /\ i > 2 /\ log[i - 2] = (CASE calls[c].op = "getById" -> "findOne"
                                         [] calls[c].op = "update" -> "update"
                                         [] calls[c].op \in {"del", "delMatch"} -> "remove"
                                         [] OTHER -> "insert")
             /\ \A j \in 1..(i - 1) : log[j] \notin {"callback", "error", "emit"}
             /\ i < Len(log) /\ log[i + 1] = "callback"

\* An update was written: the store reported the success of the write, then
\* the event was emitted, then the callback was invoked.
C13_Witness ==
  \E c \in Calls :
    calls[c].log = <<"validate", "findOne", "ok", "update", "ok", "emit", "callback">>

\* C14: every outcome that arises after the first store call reaches the
\* caller through the completion callback: no exception leaves a callback of
\* the store, and the completion callback is not left uninvoked.
C14_OutcomesReachTheCallback ==
  \A c \in Calls :
    (Where(c, "ok") \cup Where(c, "error") # {} /\ calls[c].pc = "done")
      => calls[c].thrown = "none" /\ Len(calls[c].cb) = 1

\* The argument of call c is malformed: no object where a model or a match is
\* expected, no array of objects where models are expected, a falsy identity.
Malformed(c) ==
  LET isObject(v) == v.t \in {"obj", "arr", "date"}
  IN  CASE calls[c].op \in {"create", "update"} -> ~isObject(calls[c].model)
        [] calls[c].op = "batchCreate" ->
             ~(calls[c].model.t = "arr"
               /\ \A i \in 1..Len(calls[c].model.e) : isObject(calls[c].model.e[i]))
        [] calls[c].op \in {"getById", "del"} ->
             calls[c].id.t \in {"undef", "null"} \/ calls[c].id = S(0)
        [] calls[c].op \in {"findMatch", "delMatch"} -> ~isObject(calls[c].match)
        [] OTHER -> FALSE

C16_StoreErrorsAreTranslated ==
  \A c \in Calls :
    calls[c].op \in {"getById", "create", "batchCreate", "update", "del", "delMatch"}
      => \A i \in Where(c, "error") :
           i < Len(calls[c].log) /\ calls[c].log[i + 1] = "translateDbError"

(***************************************************************************)
(* translateDbError on its own, applied to the errors a store may report:  *)
(* strings and error objects, with the duplicate-key pattern anywhere in   *)
(* the text or nowhere, and error objects without a message.               *)
(***************************************************************************)
MaxPieces == 3

Pieces == {"E11000 ", "duplicate key error", " index"}

Messages == SeqsUpTo(Pieces, MaxPieces)

TranslateErrors ==
  {Str(m) : m \in Messages}
  \cup {[t |-> "error", class |-> "MongoError", message |-> m] : m \in Messages}
  \cup {[t |-> "error", class |-> "MongoError"],
        [t |-> "error", class |-> "MongoError", code |-> 11000]}

TranslateInit ==
  /\ collection = [id \in Ids |-> Nil]
  /\ calls = [c \in Calls |-> IdleCall]
  /\ dOrig = Nil /\ dUpdated = Nil /\ dVersion = "none" /\ dSet = Nil
  /\ tErr \in TranslateErrors /\ tOut = Nil
  /\ options = NoOptions /\ now = 0 /\ jsonPtr = "existing"

TranslateDbError ==
  /\ tOut = Nil
  /\ tOut' = translateDbError(tErr)
  /\ UNCHANGED <<collection, calls, dOrig, dUpdated, dVersion, dSet, tErr, envVars>>

TranslateNext == TranslateDbError

TranslateSpec == TranslateInit /\ [][TranslateNext]_vars

\* The text of an error: the string itself, the message of an error object,
\* the empty text when there is none.
TextOf(err) ==
  IF err.t = "str" THEN err.v
  ELSE IF "message" \in DOMAIN err THEN err.message
  ELSE <<>>

\* C17: the default translateDbError returns a Conflict error for every
\* store error whose text contains the duplicate-key pattern, wherever the
\* pattern occurs in the text, and returns every other error as it is, also
\* an error that carries no message.
C17_TranslateDbError ==
  tOut # Nil
    => tOut = (IF \E i \in 1..Len(TextOf(tErr)) : TextOf(tErr)[i] = "duplicate key error"
                 THEN ConflictError ELSE tErr)

\* The call c ends its del in this step, with the store reporting success.
DelSucceeds(c) ==
  /\ calls[c].op = "del" /\ calls[c].pc = "remove"
  /\ calls'[c].pc = "done"
  /\ Len(calls'[c].cb) = 1 /\ calls'[c].cb[1].err = Null

\* C18: a successful del(id) leaves no document with the identity and leaves
\* every other stored document as it was; an identity that is not stored
\* becomes stored only by the insert of a create or a batchCreate; and a
\* getById answered while the identity is not stored calls back with the
\* not-found error and no model.
C18_DeletedStaysAbsent ==
  [][/\ \A c \in Calls :
          DelSucceeds(c)
            => /\ collection'[calls[c].id.v] = Nil
               /\ \A o \in Ids \ {calls[c].id.v} : collection'[o] = collection[o]
     /\ \A id \in Ids :
          (collection[id] = Nil /\ collection'[id] # Nil)
            => \E c \in Calls :
                 /\ calls[c].op \in {"create", "batchCreate"}
                 /\ calls[c].pc = "insert" /\ calls'[c].pc = "done"
     /\ \A c \in Calls :
          ( /\ calls[c].op = "getById" /\ calls[c].pc = "findOne"
            /\ calls'[c].pc = "done"
            /\ ~(Len(calls'[c].cb) = 1 /\ calls'[c].cb[1].err = ConnectionError)
            /\ collection[calls[c].id.v] = Nil )
            => calls'[c].cb = <<Callback(NotFoundError(calls[c].id), Undef)>>]_vars

\* A del has removed the one stored document of its identity, another
\* document is still stored, and a getById of the deleted identity has been
\* called back with not-found.
C18_Witness ==
  \E c, d \in Calls :
    /\ calls[c].op = "del" /\ calls[c].pc = "done"
    /\ Len(calls[c].cb) = 1 /\ calls[c].cb[1].err = Null
    /\ calls[c].cb[1].res \in WriteResults(1)
    /\ collection[calls[c].id.v] = Nil
    /\ \E o \in Ids \ {calls[c].id.v} : collection[o] # Nil
    /\ calls[d].op = "getById" /\ calls[d].pc = "done"
    /\ calls[d].id = calls[c].id
    /\ calls[d].cb = <<Callback(NotFoundError(calls[d].id), Undef)>>

\* The call c ends its delMatch in this step, with the store reporting success.
DelMatchSucceeds(c) ==
  /\ calls[c].op = "delMatch" /\ calls[c].pc = "remove"
  /\ calls'[c].pc = "done"
  /\ Len(calls'[c].cb) = 1 /\ calls'[c].cb[1].err = Null

\* C19: a successful delMatch(match) removes the stored documents that match
\* the query it was given and no other; and getById, when the store answers,
\* calls back with not-found for an identity that is not stored and with the
\* stored document, unchanged, for one that is.
C19_DelMatchRemovesTheMatching ==
  [][/\ \A c \in Calls :
          DelMatchSucceeds(c)
            => \A id \in Ids :
                 collection'[id] =
                   IF collection[id] # Nil /\ Matches(collection[id], calls[c].match)
                     THEN Nil ELSE collection[id]
     /\ \A c \in Calls :
          ( /\ calls[c].op = "getById" /\ calls[c].pc = "findOne"
            /\ calls'[c].pc = "done"
            /\ ~(Len(calls'[c].cb) = 1 /\ calls'[c].cb[1].err = ConnectionError) )
            => calls'[c].cb =
                 IF collection[calls[c].id.v] = Nil
                   THEN <<Callback(NotFoundError(calls[c].id), Undef)>>
                   ELSE <<Callback(Null, collection[calls[c].id.v])>>]_vars

\* A delMatch by a field value has removed a document, a document that does
\* not match is still stored, and a getById of it has been called back with
\* that document.
C19_Witness ==
  \E c, d \in Calls :
    /\ calls[c].op = "delMatch" /\ calls[c].pc = "done"
    /\ Len(calls[c].cb) = 1 /\ calls[c].cb[1].err = Null
    /\ calls[c].match = Obj([k \in {"a"} |-> S(1)])
    /\ calls[c].cb[1].res \in WriteResults(1)
    /\ calls[d].op = "getById" /\ calls[d].pc = "done"
    /\ Len(calls[d].cb) = 1 /\ calls[d].cb[1].err = Null
    /\ collection[calls[d].id.v] # Nil
    /\ ~Matches(collection[calls[d].id.v], calls[c].match)
    /\ calls[d].cb[1].res = collection[calls[d].id.v]

\* C20: when the update set made in update is empty, the call ends there and
\* the callback gets no error and a result that denotes zero documents
\* affected.
C20_EmptyUpdateSetReportsZero ==
  [][\A c \in Calls :
       ( /\ calls[c].op = "update" /\ calls[c].pc = "findOne"
         /\ calls'[c].pc = "done"
         /\ calls'[c].changes # Nil /\ ~HasChanges(calls'[c].changes) )
         => /\ Len(calls'[c].cb) = 1
            /\ calls'[c].cb[1].err \in {Null, Undef}
            /\ calls'[c].cb[1].res \in WriteResults(0)]_vars

(***************************************************************************)
(* The repository with update timestamps, configured as in the example:    *)
(* timestampOnCreate ['#/dateCreatedUtc', '#/dateUpdatedUtc'] and          *)
(* timestampOnUpdate ['#/dateUpdatedUtc'].  Documents are stored, with the *)
(* update timestamp of the instant 0 or, stored by an earlier version of   *)
(* the application, without one; the clock advances and models are         *)
(* updated.                                                                *)
(***************************************************************************)
UpdateStampOptions ==
  [timestampOnCreate |-> Arr(<<CreatedPtr, UpdatedPtr>>),
   timestampOnUpdate |-> Arr(<<UpdatedPtr>>),
   id |-> Undef]

\* The documents stored and the models submitted: with or without a, with
\* or without the update timestamp.
UpdateStampDocs ==
  LET Plain == {Doc(S(id), a, Undef, Undef) : id \in Ids, a \in {Undef, S(1)}}
  IN  Plain \cup {PointerSet(d, UpdatedPtr, Date(0)) : d \in Plain}

UpdateStampInit ==
  /\ collection \in [Ids -> {Nil} \cup UpdateStampDocs]
  /\ \A id \in Ids : collection[id] # Nil => IdOf(collection[id]) = id
  /\ calls = [c \in Calls |-> IdleCall]
  /\ PureIdle
  /\ options = UpdateStampOptions /\ now = 0 /\ jsonPtr = "existing"

UpdateStampNext ==
  \/ Tick
  \/ \E c \in Calls, model \in UpdateStampDocs, verdict \in Verdicts : Update(c, model, verdict)
  \/ \E c \in Calls : UpdateFetched(c)
  \/ \E c \in Calls : UpdateWritten(c)

UpdateStampSpec == UpdateStampInit /\ [][UpdateStampNext]_vars

\* C21: with timestampOnUpdate configured, an update whose model is equal
\* to the stored document sends no write: when the fetch is answered with
\* that document the call ends there, without a write and without an event,
\* and the stored document stays as it is.
C21_TimestampsDoNotMakeAChange ==
  [][\A c \in Calls :
       ( /\ UpdateFetchAnswered(c)
         /\ options.timestampOnUpdate # Undef
         /\ collection[calls[c].id.v] = calls[c].model )
         => /\ calls'[c].pc = "done"
            /\ calls'[c].writes = 0
            /\ calls'[c].events = <<>>
            /\ collection' = collection]_vars

\* C22: in the update set that _makeUpdateSet returns, and that update sends
\* to the store, no path is both in $set and in $unset.
C22_SetAndUnsetAreDisjoint ==
  dSet # Nil => DOMAIN Part(dSet, "$set") \cap DOMAIN Part(dSet, "$unset") = {}

\* C23: _makeUpdateSet of a document against itself returns {}, with neither
\* $set nor $unset; and whenever the diff reports no change record, the
\* update set compiled is {}.
C23_NoChangeGivesTheEmptySet ==
  dSet # Nil
    => /\ dOrig = dUpdated => DOMAIN dSet = {}
       /\ observableDiff(dOrig, dUpdated, dVersion) = <<>> => DOMAIN dSet = {}

\* _makeUpdateSet has been applied to a document with an array of objects
\* against itself.
C23_Witness ==
  /\ dSet # Nil /\ dOrig = dUpdated
  /\ Prop(dOrig, "arr") = Arr(<<Elem(S(1)), S(1)>>)
  /\ DOMAIN dSet = {}

(***************************************************************************)
(* The repository with an identity accessor: options.id absent, the name   *)
(* of a property, or a callback.  Models with and without _id, with and    *)
(* without the property, are created one by one and in batches.  Only      *)
(* models whose document reaches the store with an _id of Ids are          *)
(* submitted; for the others the store would make up an _id.               *)
(***************************************************************************)
IdOptions ==
  {[NoOptions EXCEPT !.id = a] : a \in {Undef, IdByName("key"), IdByCallback("key")}}

\* {_id: i, key: k}, each of the two present or not.
IdModel(i, k) ==
  Obj([n \in {n \in {"_id", "key"} : (IF n = "_id" THEN i ELSE k) # Undef}
        |-> IF n = "_id" THEN i ELSE k])

IdModels ==
  {m \in {IdModel(i, k) : i \in {Undef, S(0), S(1)}, k \in {Undef, S(0), S(2)}} :
     ~Falsy(Prop(WithId(m, m), "_id"))}

\* The models of the batches: the identity in _id, in the property, in both.
IdBatchModels ==
  IdModels \cap {IdModel(S(1), Undef), IdModel(Undef, S(2)), IdModel(S(0), S(2))}

IdInit ==
  /\ collection = [id \in Ids |-> Nil]
  /\ calls = [c \in Calls |-> IdleCall]
  /\ PureIdle
  /\ options \in IdOptions /\ now = 0 /\ jsonPtr = "existing"

IdNext ==
  \/ \E c \in Calls, model \in IdModels, verdict \in Verdicts : Create(c, model, verdict)
  \/ \E c \in Calls : CreateInserted(c)
  \/ \E c \in Calls, models \in {Arr(m) : m \in SeqsUpTo(IdBatchModels, MaxBatch)} :
       BatchCreate(c, models)
  \/ \E c \in Calls : BatchValidated(c)
  \/ \E c \in Calls : BatchInserted(c)

IdSpec == IdInit /\ [][IdNext]_vars

\* The _id the claim gives the document of a model: the model's own _id when
\* it carries one, else what the accessor yields.
ClaimedId(model) ==
  IF "_id" \in DOMAIN model.f THEN model.f["_id"] ELSE dataIdFromModel(model)

\* C24: the document that create and batchCreate send to the store for a
\* model has the model's own _id when the model carries one, whatever the
\* accessor yields, and else the value the accessor yields.
C24_IdentityDefaultsFromTheAccessor ==
  \A c \in Calls :
    /\ (calls[c].op = "create" /\ calls[c].updated # Nil)
         => Prop(calls[c].updated, "_id") = ClaimedId(calls[c].model)
    /\ calls[c].op = "batchCreate"
         => \A j \in 1..Len(calls[c].valid) :
              \E i \in 1..Len(calls[c].models) :
                Prop(calls[c].valid[j], "_id") = ClaimedId(calls[c].models[i])

\* C25: when the store answers the write of an update with success and one
\* document affected, whether as an object carrying the count or as the bare
\* count, the call emits one 'updated' event with the identity, the update
\* set that was sent and the count.
C25_UpdatedEventForBothResultShapes ==
  [][\A c \in Calls :
       ( /\ calls[c].op = "update" /\ calls[c].pc = "update"
         /\ calls'[c].pc = "done"
         /\ calls'[c].log[Len(calls[c].log) + 1] = "ok"
         /\ FindOne(calls[c].id) # Null )
         => calls'[c].events
              = <<UpdatedEventData(calls[c].id, calls[c].changes, S(1))>>]_vars

(***************************************************************************)
(* The repository read through streams: findMatch and findWindowedMatch    *)
(* on a collection with some documents in it, the cursors opened and read  *)
(* to their end while documents are deleted.                               *)
(***************************************************************************)
\* Ascending and descending by a field.
SortSpecs == {Obj([k \in {"a"} |-> S(1)]), Obj([k \in {"a"} |-> S(0 - 1)])}

Skips == {S(0), S(1)}

Limits == {S(0), S(1), S(2)}

FindInit == Init

FindNext ==
  \/ \E c \in Calls, match \in MatchSpecs : FindMatch(c, match)
  \/ \E c \in Calls, match \in MatchSpecs, sort \in SortSpecs,
        skip \in Skips, limit \in Limits :
       FindWindowedMatch(c, match, sort, skip, limit)
  \/ \E c \in Calls : CursorOpened(c)
  \/ \E c \in Calls : StreamTransform(c)
  \/ \E c \in Calls : StreamEnd(c)
  \/ \E c \in Calls, id \in {S(i) : i \in Ids} : Del(c, id)
  \/ \E c \in Calls : DelRemoved(c)

FindSpec == FindInit /\ [][FindNext]_vars

C27_CursorSetupErrorGoesToTheCallback ==
  \A c \in Calls :
    ( /\ calls[c].op \in {"findMatch", "findWindowedMatch"}
      /\ Where(c, "error") # {} )
      => /\ calls[c].pc = "done"
         /\ calls[c].cb = <<Callback(CursorError, Undef)>>
         /\ calls[c].thrown = "none"
         /\ calls[c].log = <<"find", "error", "callback">>
         /\ calls[c].cursor = Nil /\ calls[c].out = <<>>

\* Making the cursor has thrown in a findMatch and in a findWindowedMatch.
C27_Witness ==
  \E c, d \in Calls :
    /\ calls[c].op = "findMatch" /\ calls[d].op = "findWindowedMatch"
    /\ calls[c].cb = <<Callback(CursorError, Undef)>>
    /\ calls[d].cb = <<Callback(CursorError, Undef)>>

(***************************************************************************)
(* Updates racing on one document: the document has a scalar field and a   *)
(* field that is absent, a scalar or an array; two update calls are made   *)
(* and their fetches and writes interleave in every order.                 *)
(***************************************************************************)
RaceDocs ==
  {Doc(S(1), a, arr, Undef) :
     a \in {Undef, S(1), S(2)},
     arr \in {Undef, S(1), Arr(<<>>), Arr(<<S(1)>>), Arr(<<S(1), S(2)>>)}}

RaceInit ==
  /\ collection \in [Ids -> {Nil} \cup RaceDocs]
  /\ collection[1] # Nil /\ collection[2] = Nil
  /\ calls = [c \in Calls |-> IdleCall]
  /\ PureIdle
  /\ options = NoOptions /\ now = 0 /\ jsonPtr = "existing"

RaceNext ==
  \/ \E c \in Calls, model \in RaceDocs, verdict \in Verdicts : Update(c, model, verdict)
  \/ \E c \in Calls : UpdateFetched(c)
  \/ \E c \in Calls : UpdateWritten(c)

RaceSpec == RaceInit /\ [][RaceNext]_vars

RECURSIVE GetPath(_, _)
\* The value at a path of a document, Undef when there is none.
GetPath(v, path) ==
  IF path = <<>> THEN v ELSE GetPath(Prop(v, Head(path)), Tail(path))

\* The paths looked at: the fields and the elements of the array.
RacePaths == {<<"_id">>, <<"a">>, <<"arr">>, <<"arr", "0">>, <<"arr", "1">>}

\* The dotted paths of an update set.
PathsOf(changes) == DOMAIN Part(changes, "$set") \cup DOMAIN Part(changes, "$unset")

\* The step in which the store answers the write of call c, the document
\* being there, and it is no failure of the connection.
WriteArrives(c) ==
  /\ calls[c].op = "update" /\ calls[c].pc = "update" /\ calls'[c].pc = "done"
  /\ FindOne(calls[c].id) # Null
  /\ ~(Len(calls'[c].cb) = 1 /\ calls'[c].cb[1].err = ConnectionError)

\* The write of call c is refused by the store.
WriteRefused(c) == Len(calls'[c].cb) = 1 /\ calls'[c].cb[1].err = WriteRefusedError

\* The write of call c changes the paths of its own update set and no other:
\* a path of $set holds the value assigned, a path of $unset holds nothing,
\* and a path that is neither in the update set, nor above or below one of
\* its paths, holds what it held.
WritesOwnPaths(c) ==
  LET U == calls[c].changes
      before == collection[calls[c].id.v]
      after == collection'[calls[c].id.v]
  IN  \A p \in RacePaths :
        /\ JoinDot(p) \in DOMAIN Part(U, "$set")
             => GetPath(after, p) = Bson(U["$set"][JoinDot(p)])
        /\ JoinDot(p) \in DOMAIN Part(U, "$unset")
             => GetPath(after, p) \in {Undef, Null}
        /\ (\A q \in PathsOf(U) :
              ~IsPrefix(p, SplitDot(q)) /\ ~IsPrefix(SplitDot(q), p))
             => GetPath(after, p) = GetPath(before, p)

\* C28, as stated: every write of an update that arrives is carried out,
\* also when another update of the same document has fetched or written in
\* between, and it changes the paths of its own update set and no other.
C28_RacingWritesAreNeverRefused ==
  [][\A c \in Calls :
       WriteArrives(c) => ~WriteRefused(c) /\ WritesOwnPaths(c)]_vars

\* C28, amended: a write that arrives and is carried out changes the paths
\* of its own update set and no other; a write is refused only when the
\* document has changed since the call fetched it and a path of the update
\* set leads through a value that is now a scalar, and then the document
\* stays as it is.
C28_RacingWritesChangeOwnPaths ==
  [][\A c \in Calls :
       WriteArrives(c)
         => IF WriteRefused(c)
              THEN /\ collection' = collection
                   /\ collection[calls[c].id.v] # calls[c].data
                   /\ \E q \in PathsOf(calls[c].changes) :
                        \E n \in 1..(Len(SplitDot(q)) - 1) :
                          GetPath(collection[calls[c].id.v],
                                  SubSeq(SplitDot(q), 1, n)).t = "s"
              ELSE WritesOwnPaths(c)]_vars

\* Two updates fetched the same document before either wrote, both writes
\* were carried out, one assigning a and the other an element of arr, and
\* the document holds both.
C28_Witness ==
  \E c, d \in Calls :
    /\ c # d /\ calls[c].op = "update" /\ calls[d].op = "update"
    /\ calls[c].pc = "done" /\ calls[d].pc = "done"
    /\ calls[c].data # Nil /\ calls[c].data = calls[d].data
    /\ Len(calls[c].cb) = 1 /\ calls[c].cb[1].err = Null
    /\ Len(calls[d].cb) = 1 /\ calls[d].cb[1].err = Null
    /\ PathsOf(calls[c].changes) = {"a"} /\ PathsOf(calls[d].changes) = {"arr.1"}
    /\ GetPath(collection[1], <<"a">>) = calls[c].changes["$set"]["a"]
    /\ GetPath(collection[1], <<"a">>) # GetPath(calls[c].data, <<"a">>)
    /\ Len(collection[1].f["arr"].e) = 2

\* C29: when the validate hook rejects the model, create and update call
\* back with that error and do nothing else: the call is over, nothing was
\* sent to the store (for update not even the fetch), nothing was emitted,
\* and the step leaves the collection as it is.
C29_RejectedModelsGoNoFurther ==
  /\ [](\A c \in Calls :
          ( /\ calls[c].op \in {"create", "update"}
            /\ \E i \in 1..Len(calls[c].cb) : calls[c].cb[i].err = ValidationError )
            => /\ calls[c].pc = "done"
               /\ calls[c].cb = <<Callback(ValidationError, Undef)>>
               /\ calls[c].log = <<"validate", "callback">>
               /\ calls[c].writes = 0
               /\ calls[c].events = <<>>
               /\ calls[c].thrown = "none")
  /\ [][\A c \in Calls :
          ( /\ calls'[c].op \in {"create", "update"}
            /\ calls[c].cb = <<>>
            /\ calls'[c].cb = <<Callback(ValidationError, Undef)>> )
            => collection' = collection]_vars

\* A create and an update of a stored document were both rejected by the
\* validate hook.
C29_Witness ==
  \E c, d \in Calls :
    /\ calls[c].op = "create" /\ calls[c].cb = <<Callback(ValidationError, Undef)>>
    /\ calls[d].op = "update" /\ calls[d].cb = <<Callback(ValidationError, Undef)>>
    /\ collection[IdOf(calls[d].model)] # Nil
    /\ collection[IdOf(calls[d].model)] # calls[d].model

\* C30: update fetches and writes with one filter, {_id: the identity the
\* accessor gives for the submitted model}: the call's identity is that of
\* its model, the document it fetched carries it, and a step of an update
\* call changes no stored document but the one with that identity.
C30_UpdateTouchesOnlyItsDocument ==
  /\ [](\A c \in Calls :
          (calls[c].op = "update" /\ calls[c].pc \in {"findOne", "update"})
            => /\ calls[c].id = dataIdFromModel(calls[c].model)
               /\ calls[c].pc = "update" => Prop(calls[c].data, "_id") = calls[c].id)
  /\ [][\A c \in Calls :
          (calls'[c] # calls[c] /\ calls'[c].op = "update")
            => \A i \in Ids :
                 collection'[i] # collection[i]
                   => /\ calls[c].pc = "update"
                      /\ dataIdFromModel(calls[c].model) = S(i)
                      /\ collection[i] # Nil
                      /\ collection'[i] # Nil
                      /\ IdOf(collection'[i]) = i]_vars

\* An update of document 1 has changed it while document 2 is stored.
C30_Witness ==
  \E c \in Calls :
    /\ calls[c].op = "update" /\ calls[c].pc = "done"
    /\ calls[c].writes = 1
    /\ calls[c].id = S(1)
    /\ Len(calls[c].events) = 1
    /\ collection[1] # Nil /\ collection[1] # calls[c].data
    /\ collection[2] # Nil

\* The positions of a token in the log of a call.
Positions(c, what) == {i \in 1..Len(calls[c].log) : calls[c].log[i] = what}

\* C31: every update that passes validation issues its own findOne before
\* any write: the write comes after the one findOne of the call, the
\* document the call diffs against is the one stored when its findOne is
\* answered, and the update set it sends is made from exactly that document
\* and the model submitted with the call.
C31_EachUpdateFetchesForItself ==
  /\ [](\A c \in Calls :
          (calls[c].op = "update" /\ Positions(c, "update") # {})
            => /\ Cardinality(Positions(c, "findOne")) = 1
               /\ \A w \in Positions(c, "update") :
                    \E f \in Positions(c, "findOne") : f < w
               /\ calls[c].updated = beforeUpdateDataModel(transformModel(calls[c].model))
               /\ \E ver \in DeepVersions :
                    calls[c].changes =
                      injectTimestamps(makeUpdateSet(calls[c].data, calls[c].updated, ver)))
  /\ [][\A c \in Calls :
          (calls[c].op = "update" /\ calls[c].pc = "findOne" /\ calls'[c].pc # "findOne")
            => /\ calls'[c].data \in {Nil, FindOne(calls[c].id)}
               /\ calls'[c].pc = "update" => calls'[c].data # Nil]_vars

\* Two updates of one identity, one after the other: the second fetched the
\* document as the first had left it, not the document the first had fetched,
\* and its write is what is stored.
C31_Witness ==
  \E c, d \in Calls :
    /\ calls[c].op = "update" /\ calls[d].op = "update"
    /\ calls[c].pc = "done" /\ calls[d].pc = "done"
    /\ calls[c].writes = 1 /\ calls[d].writes = 1
    /\ calls[c].id = calls[d].id
    /\ calls[c].data # Nil /\ calls[d].data # Nil
    /\ calls[d].data = MongoUpdate(calls[c].data, calls[c].changes)
    /\ calls[d].data # calls[c].data
    /\ collection[calls[d].id.v] = MongoUpdate(calls[d].data, calls[d].changes)
    /\ collection[calls[d].id.v] # calls[d].data

\* C32: batchCreate invokes its completion callback exactly once for every
\* array of models, the empty array included: never more than once, and
\* once by the time the call has nothing left to do.
C32_BatchCallsBackExactlyOnce ==
  \A c \in Calls :
    (calls[c].op = "batchCreate" /\ AssertArrayOfObject(calls[c].model))
      => /\ Len(calls[c].cb) <= 1
         /\ calls[c].pc = "done" => Len(calls[c].cb) = 1

(***************************************************************************)
(* The repository with each identity configuration, in update: the stored  *)
(* documents are as create stores them, the identity in _id and in the     *)
(* property key; the models submitted carry the identity in key, and some  *)
(* carry the _id as well.                                                  *)
(***************************************************************************)
\* {_id: i, key: k, a: a}, each present or not.
KeyedDoc(i, k, a) ==
  LET all == [n \in {"_id", "key", "a"} |->
                CASE n = "_id" -> i [] n = "key" -> k [] OTHER -> a]
  IN  Obj([n \in {n \in DOMAIN all : all[n] # Undef} |-> all[n]])

UpdateIdDocs == {KeyedDoc(S(i), S(i), a) : i \in Ids, a \in {Undef, S(1)}}

UpdateIdModels ==
  UpdateIdDocs \cup {KeyedDoc(Undef, S(i), a) : i \in Ids, a \in {Undef, S(1), S(2)}}

UpdateIdInit ==
  /\ collection \in [Ids -> {Nil} \cup UpdateIdDocs]
  /\ \A id \in Ids : collection[id] # Nil => IdOf(collection[id]) = id
  /\ calls = [c \in Calls |-> IdleCall]
  /\ PureIdle
  /\ options \in IdOptions /\ now = 0 /\ jsonPtr = "existing"

UpdateIdNext ==
  \/ \E c \in Calls, model \in UpdateIdModels, verdict \in Verdicts : Update(c, model, verdict)
  \/ \E c \in Calls : UpdateFetched(c)
  \/ \E c \in Calls : UpdateWritten(c)

UpdateIdSpec == UpdateIdInit /\ [][UpdateIdNext]_vars

\* C33: the update set that update sends to the store never has the path
\* '_id', neither in $set nor in $unset, whatever the identity configuration.
C33_UpdateSetLeavesTheIdAlone ==
  \A c \in Calls :
    (calls[c].op = "update" /\ Positions(c, "update") # {})
      => /\ "_id" \notin DOMAIN Part(calls[c].changes, "$set")
         /\ "_id" \notin DOMAIN Part(calls[c].changes, "$unset")

(***************************************************************************)
(* The repository with an update timestamp inside a sub-document:          *)
(* timestampOnUpdate is ['#/o/dateUpdatedUtc'], the documents have the     *)
(* sub-document o or not, with the field x and with the timestamp or not.  *)
(***************************************************************************)
\* JsonPointer.create('#/o/dateUpdatedUtc')
NestedPtr == <<"o", "dateUpdatedUtc">>

NestedStampOptions ==
  [timestampOnCreate |-> Undef, timestampOnUpdate |-> Arr(<<NestedPtr>>), id |-> Undef]

\* The sub-documents: {x: 1}, {dateUpdatedUtc: 0}, both, and none.
NestedSubs ==
  {Undef}
  \cup {Obj([k \in ks |-> IF k = "x" THEN S(1) ELSE Date(0)]) :
          ks \in (SUBSET {"x", "dateUpdatedUtc"}) \ {{}}}

NestedStampDocs == {Doc(S(1), a, Undef, o) : a \in {Undef, S(1)}, o \in NestedSubs}

NestedStampInit ==
  /\ collection \in [Ids -> {Nil} \cup NestedStampDocs]
  /\ \A id \in Ids : collection[id] # Nil => IdOf(collection[id]) = id
  /\ calls = [c \in Calls |-> IdleCall]
  /\ PureIdle
  /\ options = NestedStampOptions /\ now \in {0, 1} /\ jsonPtr \in PointerVersions

NestedStampNext ==
  \/ \E c \in Calls, model \in NestedStampDocs, verdict \in Verdicts : Update(c, model, verdict)
  \/ \E c \in Calls : UpdateFetched(c)
  \/ \E c \in Calls : UpdateWritten(c)

NestedStampSpec == NestedStampInit /\ [][NestedStampNext]_vars

\* The keys of an update set, of $set and of $unset.
KeysOf(changes) == DOMAIN Part(changes, "$set") \cup DOMAIN Part(changes, "$unset")

\* C34: in every update set that update sends, no key is a proper
\* path-prefix of another key, also with the update timestamp at a nested
\* path; and a write that is carried out keeps the field x of the
\* sub-document where the model submitted has it as it is stored.
C34_NoKeyAboveAnother ==
  /\ [](\A c \in Calls :
          (calls[c].op = "update" /\ Positions(c, "update") # {})
            => \A p, q \in KeysOf(calls[c].changes) :
                 p # q => ~IsPrefix(SplitDot(p), SplitDot(q)))
  /\ [][\A c \in Calls :
          ( /\ calls[c].op = "update" /\ calls[c].pc = "update"
            /\ calls'[c].pc = "done"
            /\ collection' # collection
            /\ GetPath(calls[c].model, <<"o", "x">>)
                 = GetPath(collection[calls[c].id.v], <<"o", "x">>) )
            => GetPath(collection'[calls[c].id.v], <<"o", "x">>)
                 = GetPath(collection[calls[c].id.v], <<"o", "x">>)]_vars

\* _transformModel returns its argument, so data and the model the caller
\* passed are one object and what create and update assign to data they
\* assign to the caller's model: the caller's model as it is now.
CallersModel(c) ==
  IF calls[c].op \in {"create", "update"} /\ calls[c].updated # Nil
    THEN calls[c].updated
    ELSE calls[c].model

\* C35: create, batchCreate and update leave the model the caller passed as
\* it was: at every moment of the call it has the fields and values it was
\* passed with, and so has every model of a batch.
C35_CallersModelIsLeftAlone ==
  \A c \in Calls :
    /\ calls[c].op \in {"create", "update"} => CallersModel(c) = calls[c].model
    /\ calls[c].op = "batchCreate"
         => \A j \in 1..Len(calls[c].valid) :
              \E i \in 1..Len(calls[c].models) : calls[c].valid[j] = calls[c].models[i]

(***************************************************************************)
(* findMatch and findWindowedMatch with callbacks that return and          *)
(* callbacks that raise, on the first invocation or on every one.          *)
(***************************************************************************)
Raises == 0..2

HandOverInit == Init

HandOverNext ==
  \/ \E c \in Calls, match \in MatchSpecs \cup BadObjects, raises \in Raises :
       FindMatchWith(c, match, raises)
  \/ \E c \in Calls, match \in MatchSpecs, sort \in SortSpecs,
        skip \in Skips, limit \in Limits, raises \in Raises :
       FindWindowedMatchWith(c, match, sort, skip, limit, raises)

HandOverSpec == HandOverInit /\ [][HandOverNext]_vars

\* C36: findMatch and findWindowedMatch invoke the completion callback at
\* most once per call, whether the callback returns or raises.
C36_FindCallsBackAtMostOnce ==
  \A c \in Calls :
    calls[c].op \in {"findMatch", "findWindowedMatch"} => Len(calls[c].cb) <= 1

\* C37: whenever the insert of a create has succeeded, the completion
\* callback is invoked, once, with the created model and nothing is raised,
\* also when the identity accessor yields no value for the stored model.
C37_StoredCreateCallsBack ==
  \A c \in Calls :
    (calls[c].op = "create" /\ calls[c].pc = "done" /\ Positions(c, "ok") # {})
      => /\ calls[c].thrown = "none"
         /\ calls[c].cb = <<Callback(Null, transformData(calls[c].updated))>>

\* The identities stored.
Stored(coll) == {i \in Ids : coll[i] # Nil}

\* C38: update never creates a document: a step of an update call leaves
\* the set of stored identities as it is, and leaves the whole collection as
\* it is when the identity of the call is not stored; a step that changes
\* the set of stored identities is a step of create, batchCreate, del or
\* delMatch.
C38_UpdateNeverCreates ==
  [][\A c \in Calls :
       calls'[c] # calls[c]
         => /\ calls'[c].op = "update"
                 => /\ Stored(collection') = Stored(collection)
                    /\ FindOne(dataIdFromModel(calls'[c].model)) = Null
                         => collection' = collection
            /\ Stored(collection') # Stored(collection)
                 => calls'[c].op \in {"create", "batchCreate", "del", "delMatch"}]_vars

\* The write of an update arrived after the document had been deleted: the
\* store answered, and no document has the identity.
C38_Witness ==
  \E c \in Calls :
    /\ calls[c].op = "update" /\ calls[c].pc = "done"
    /\ calls[c].writes = 1
    /\ Cardinality(Positions(c, "ok")) = 2
    /\ collection[calls[c].id.v] = Nil

\* C39: the result array and the event records of a successful batchCreate
\* are in the order of the input: the i-th created model and the i-th record
\* of the event are those of the i-th model of the input, in whatever order
\* the validations were answered.
C39_BatchResultsInInputOrder ==
  \A c \in Calls :
    ( /\ calls[c].op = "batchCreate" /\ calls[c].pc = "done"
      /\ Len(calls[c].cb) = 1 /\ calls[c].cb[1].err = Null )
      => LET created == calls[c].cb[1].res.e
             evt == calls[c].events[1].models
         IN  /\ Len(created) = Len(calls[c].models)
             /\ Len(evt) = Len(calls[c].models)
             /\ \A i \in 1..Len(calls[c].models) :
                  /\ created[i] = transformData(calls[c].models[i])
                  /\ evt[i] = CreatedEventData(dataIdFromModel(calls[c].models[i]),
                                               transformData(calls[c].models[i]))

=============================================================================
